---- MODULE Spec2Model ----
(***************************************************************************)
(* A model of ska-pst-stat: the STAT file schema (hdf5/consts.py,          *)
(* hdf5/model.py), the reader Statistics.load_from_file (stats.py) and the *)
(* synthetic generator StatConfig / Hdf5FileGenerator / _calc_stats        *)
(* (utility/hdf5_file_generator.py).                                       *)
(*                                                                         *)
(* Python values are modelled as follows: a dataclass instance is a record *)
(* of its keyword arguments, an exception is the string of its class name, *)
(* None is a record of class NoneType, a numpy array is a record carrying  *)
(* its shape and dtype, an HDF5 file is a function from its top-level keys *)
(* to the datasets stored under them.                                      *)
(***************************************************************************)
EXTENDS Integers, Sequences, FiniteSets, TLC

VARIABLES
    made,       \* outcome of the last StatConfig(...) construction
    genr,       \* the Hdf5FileGenerator instance: _params and _stats
    fs,         \* the file system entry at the generator's _file_path
    calc,       \* what the last _calc_stats call computed
    gen_call,   \* outcome of the last generate() call
    load_call,  \* outcome of the last Statistics.load_from_file call
    test_run,   \* outcome of the last unit-test run
    dir,        \* whether the parent directory of the file path exists
    handles,    \* the modes of the h5py.File handles that are open
    stats_call  \* outcome of the last read of the generator's stats property

vars ==
    <<made, genr, fs, calc, gen_call, load_call, test_run, dir, handles,
      stats_call>>

\* The variables of the file system and of the stats property.
file_vars == <<dir, handles, stats_call>>

\* Python's None, as the value of an object-valued attribute or variable.
None == [__class__ |-> "NoneType"]

\* The outcome of a call that raised no exception.
OK == "OK"

Max(a, b) == IF a >= b THEN a ELSE b

Range(s) == {s[i] : i \in DOMAIN s}

(***************************************************************************)
(* hdf5/consts.py: the key names.                                          *)
(***************************************************************************)
HDF5_HEADER == "HEADER"

HDF5_FILE_FORMAT_VERSION == "FILE_FORMAT_VERSION"

FILE_FORMAT_VERSION_1_0_0 == "1.0.0"

HDF5_HEADER_KEYS ==
    << "FILE_FORMAT_VERSION", "EB_ID", "TELESCOPE", "SCAN_ID", "BEAM_ID",
       "UTC_START", "T_MIN", "T_MAX", "FREQ", "BW", "START_CHAN", "NPOL",
       "NDIM", "NCHAN", "NCHAN_DS", "NDAT_DS", "NBIN_HIST", "NREBIN",
       "CHAN_FREQ", "FREQUENCY_BINS", "TIMESERIES_BINS" >>

HDF5_DATA_KEYS ==
    << "MEAN_FREQUENCY_AVG", "MEAN_FREQUENCY_AVG_RFI_EXCISED",
       "VARIANCE_FREQUENCY_AVG", "VARIANCE_FREQUENCY_AVG_RFI_EXCISED",
       "MEAN_SPECTRUM", "VARIANCE_SPECTRUM", "MEAN_SPECTRAL_POWER",
       "MAX_SPECTRAL_POWER", "HISTOGRAM_1D_FREQ_AVG",
       "HISTOGRAM_1D_FREQ_AVG_RFI_EXCISED", "HISTOGRAM_REBINNED_2D_FREQ_AVG",
       "HISTOGRAM_REBINNED_2D_FREQ_AVG_RFI_EXCISED",
       "HISTOGRAM_REBINNED_1D_FREQ_AVG",
       "HISTOGRAM_REBINNED_1D_FREQ_AVG_RFI_EXCISED",
       "NUM_CLIPPED_SAMPLES_SPECTRUM", "NUM_CLIPPED_SAMPLES",
       "NUM_CLIPPED_SAMPLES_RFI_EXCISED", "SPECTROGRAM", "TIMESERIES",
       "TIMESERIES_RFI_EXCISED" >>

\* The four names stats.py imports from hdf5/consts.py that consts.py does
\* not define; their values are the literal keys of the unit test.
HDF5_NUM_SAMPLES == "NUM_SAMPLES"

HDF5_NUM_SAMPLES_RFI_EXCISED == "NUM_SAMPLES_RFI_EXCISED"

HDF5_NUM_SAMPLES_SPECTRUM == "NUM_SAMPLES_SPECTRUM"

HDF5_NUM_INVALID_PACKETS == "NUM_INVALID_PACKETS"

(***************************************************************************)
(* hdf5/model.py: key mapping, header record type, dataclass fields.       *)
(***************************************************************************)
KEY_MAP ==
    [ BW        |-> "bandwidth_mhz",
      FREQ      |-> "frequency_mhz",
      NBIN_HIST |-> "histogram_nbin",
      CHAN_FREQ |-> "channel_freq_mhz" ]

\* str.lower() on the key names of the schema.
str_lower ==
    [ FILE_FORMAT_VERSION |-> "file_format_version",
      EB_ID |-> "eb_id", TELESCOPE |-> "telescope", SCAN_ID |-> "scan_id",
      BEAM_ID |-> "beam_id", UTC_START |-> "utc_start", T_MIN |-> "t_min",
      T_MAX |-> "t_max", FREQ |-> "freq", BW |-> "bw",
      START_CHAN |-> "start_chan", NPOL |-> "npol", NDIM |-> "ndim",
      NCHAN |-> "nchan", NCHAN_DS |-> "nchan_ds", NDAT_DS |-> "ndat_ds",
      NBIN_HIST |-> "nbin_hist", NREBIN |-> "nrebin",
      CHAN_FREQ |-> "chan_freq", FREQUENCY_BINS |-> "frequency_bins",
      TIMESERIES_BINS |-> "timeseries_bins",
      NUM_SAMPLES |-> "num_samples",
      NUM_SAMPLES_RFI_EXCISED |-> "num_samples_rfi_excised",
      NUM_SAMPLES_SPECTRUM |-> "num_samples_spectrum",
      NUM_INVALID_PACKETS |-> "num_invalid_packets",
      HEADER |-> "header",
      MEAN_FREQUENCY_AVG |-> "mean_frequency_avg",
      MEAN_FREQUENCY_AVG_RFI_EXCISED |-> "mean_frequency_avg_rfi_excised",
      VARIANCE_FREQUENCY_AVG |-> "variance_frequency_avg",
      VARIANCE_FREQUENCY_AVG_RFI_EXCISED |->
          "variance_frequency_avg_rfi_excised",
      MEAN_SPECTRUM |-> "mean_spectrum",
      VARIANCE_SPECTRUM |-> "variance_spectrum",
      MEAN_SPECTRAL_POWER |-> "mean_spectral_power",
      MAX_SPECTRAL_POWER |-> "max_spectral_power",
      HISTOGRAM_1D_FREQ_AVG |-> "histogram_1d_freq_avg",
      HISTOGRAM_1D_FREQ_AVG_RFI_EXCISED |->
          "histogram_1d_freq_avg_rfi_excised",
      HISTOGRAM_REBINNED_2D_FREQ_AVG |-> "histogram_rebinned_2d_freq_avg",
      HISTOGRAM_REBINNED_2D_FREQ_AVG_RFI_EXCISED |->
          "histogram_rebinned_2d_freq_avg_rfi_excised",
      HISTOGRAM_REBINNED_1D_FREQ_AVG |-> "histogram_rebinned_1d_freq_avg",
      HISTOGRAM_REBINNED_1D_FREQ_AVG_RFI_EXCISED |->
          "histogram_rebinned_1d_freq_avg_rfi_excised",
      NUM_CLIPPED_SAMPLES_SPECTRUM |-> "num_clipped_samples_spectrum",
      NUM_CLIPPED_SAMPLES |-> "num_clipped_samples",
      NUM_CLIPPED_SAMPLES_RFI_EXCISED |-> "num_clipped_samples_rfi_excised",
      SPECTROGRAM |-> "spectrogram", TIMESERIES |-> "timeseries",
      TIMESERIES_RFI_EXCISED |-> "timeseries_rfi_excised" ]

map_hdf5_key(hdf5_key) ==
    IF hdf5_key \in DOMAIN KEY_MAP
    THEN KEY_MAP[hdf5_key]
    ELSE str_lower[hdf5_key]

\* The (name, type) pairs of the compound header record, in order.
HDF5_HEADER_TYPE ==
    << <<"EB_ID", "string">>, <<"TELESCOPE", "string">>,
       <<"SCAN_ID", "uint64">>, <<"BEAM_ID", "string">>,
       <<"UTC_START", "string">>, <<"T_MIN", "float64">>,
       <<"T_MAX", "float64">>, <<"FREQ", "float64">>, <<"BW", "float64">>,
       <<"START_CHAN", "uint32">>, <<"NPOL", "uint32">>,
       <<"NDIM", "uint32">>, <<"NCHAN", "uint32">>,
       <<"NCHAN_DS", "uint32">>, <<"NDAT_DS", "uint32">>,
       <<"NBIN_HIST", "uint32">>, <<"NREBIN", "uint32">>,
       <<"CHAN_FREQ", "vlen_float64">>, <<"FREQUENCY_BINS", "vlen_float64">>,
       <<"TIMESERIES_BINS", "vlen_float64">> >>

dtype_names(dtype) == [i \in DOMAIN dtype |-> dtype[i][1]]

\* dataclass StatisticsMetadata: its fields, and those without a default.
StatisticsMetadata_fields ==
    << "file_format_version", "eb_id", "telescope", "scan_id", "beam_id",
       "utc_start", "t_min", "t_max", "frequency_mhz", "bandwidth_mhz",
       "start_chan", "npol", "ndim", "nchan", "nchan_ds", "ndat_ds",
       "histogram_nbin", "nrebin" >>

StatisticsMetadata_defaults == [file_format_version |-> "1.0.0"]

\* dataclass StatisticsData: its fields (none has a default).
StatisticsData_fields ==
    << "channel_freq_mhz", "mean_frequency_avg",
       "mean_frequency_avg_rfi_excised", "variance_frequency_avg",
       "variance_frequency_avg_rfi_excised", "mean_spectrum",
       "variance_spectrum", "mean_spectral_power", "max_spectral_power",
       "histogram_1d_freq_avg", "histogram_1d_freq_avg_rfi_excised",
       "rebinned_histogram_2d_freq_avg",
       "rebinned_histogram_2d_freq_avg_rfi_excised",
       "rebinned_histogram_1d_freq_avg",
       "rebinned_histogram_1d_freq_avg_rfi_excised",
       "num_clipped_samples_spectrum", "num_clipped_samples",
       "num_clipped_samples_rfi_excised", "timeseries_bins",
       "frequency_bins", "spectrogram", "timeseries",
       "timeseries_rfi_excised" >>

\* hdf5/model.py as the modules of src import it: the two dataclasses and
\* the header record type.
hdf5_model ==
    [ StatisticsMetadata |-> StatisticsMetadata_fields,
      StatisticsData |-> StatisticsData_fields,
      HDF5_HEADER_TYPE |-> HDF5_HEADER_TYPE ]

\* The header record type of the extended schema: the fields of
\* HDF5_HEADER_TYPE followed by the four sample counters, in the order
\* generate() packs a row.
HDF5_HEADER_TYPE_extended ==
    HDF5_HEADER_TYPE \o
    << <<"NUM_SAMPLES", "uint32">>, <<"NUM_SAMPLES_RFI_EXCISED", "uint32">>,
       <<"NUM_SAMPLES_SPECTRUM", "vlen_uint32">>,
       <<"NUM_INVALID_PACKETS", "uint32">> >>

\* StatisticsMetadata of the extended schema: the keywords _calc_stats and
\* load_from_file pass to it.
StatisticsMetadata_fields_extended ==
    << "file_format_version", "eb_id", "telescope", "scan_id", "beam_id",
       "utc_start", "t_min", "t_max", "frequency_mhz", "bandwidth_mhz",
       "start_chan", "npol", "ndim", "nchan", "nchan_ds", "ndat_ds",
       "histogram_nbin", "nrebin", "channel_freq_mhz", "timeseries_bins",
       "frequency_bins", "num_samples", "num_samples_rfi_excised",
       "num_samples_spectrum", "num_invalid_packets" >>

\* StatisticsData of the extended schema: the keywords _calc_stats and
\* load_from_file pass to it.
StatisticsData_fields_extended ==
    << "mean_frequency_avg", "mean_frequency_avg_rfi_excised",
       "variance_frequency_avg", "variance_frequency_avg_rfi_excised",
       "mean_spectrum", "variance_spectrum", "mean_spectral_power",
       "max_spectral_power", "histogram_1d_freq_avg",
       "histogram_1d_freq_avg_rfi_excised", "rebinned_histogram_2d_freq_avg",
       "rebinned_histogram_2d_freq_avg_rfi_excised",
       "rebinned_histogram_1d_freq_avg",
       "rebinned_histogram_1d_freq_avg_rfi_excised",
       "num_clipped_samples_spectrum", "num_clipped_samples",
       "num_clipped_samples_rfi_excised", "spectrogram", "timeseries",
       "timeseries_rfi_excised" >>

\* hdf5/model.py of the extended schema, the one the callers in stats.py,
\* hdf5_file_generator.py and the unit tests are written for.
hdf5_model_extended ==
    [ StatisticsMetadata |-> StatisticsMetadata_fields_extended,
      StatisticsData |-> StatisticsData_fields_extended,
      HDF5_HEADER_TYPE |-> HDF5_HEADER_TYPE_extended ]

\* The __init__ a kw_only dataclass generates: every keyword must name a
\* field and every field without a default must be given.
dataclass_init(fields, defaults, kwargs) ==
    IF /\ DOMAIN kwargs \subseteq Range(fields)
       /\ Range(fields) \ DOMAIN defaults \subseteq DOMAIN kwargs
    THEN [ raised |-> OK,
           obj |-> [f \in Range(fields) |->
                       IF f \in DOMAIN kwargs THEN kwargs[f]
                       ELSE defaults[f]] ]
    ELSE [raised |-> "TypeError", obj |-> None]

(***************************************************************************)
(* utility/hdf5_file_generator.py: StatConfig.                             *)
(***************************************************************************)
\* A variant of the loop that returns the first quotient it meets, without
\* the test that the factor divides the item count.
_recalc_nbins_loop_untested(num_items, nbin_factor) ==
    IF nbin_factor > 1 THEN num_items \div nbin_factor ELSE num_items

RECURSIVE _recalc_nbins_loop(_, _)
_recalc_nbins_loop(num_items, nbin_factor) ==
    IF nbin_factor > 1
    THEN IF num_items % nbin_factor = 0
         THEN num_items \div nbin_factor
         ELSE _recalc_nbins_loop(num_items, nbin_factor - 1)
    ELSE num_items

\* A variant that starts the search one factor higher.
_recalc_nbins_from_above(num_items, req_bins) ==
    IF num_items % req_bins = 0
    THEN req_bins
    ELSE _recalc_nbins_loop(num_items, Max(num_items \div req_bins, 1) + 1)

\* A variant that returns a request above num_items as it is.
_recalc_nbins_above_kept(num_items, req_bins) ==
    IF num_items % req_bins = 0 \/ req_bins > num_items
    THEN req_bins
    ELSE _recalc_nbins_loop(num_items, Max(num_items \div req_bins, 1))

_recalc_nbins(num_items, req_bins) ==
    IF num_items % req_bins = 0
    THEN req_bins
    ELSE _recalc_nbins_loop(num_items, Max(num_items \div req_bins, 1))

\* The dataclass-generated __init__ stores the arguments; dtype is the
\* attribute __post_init__ adds.
StatConfig_new(npol, ndim, nchan, nsamp, nheap, nbit, nfreq_bins, ntime_bins, nrebin) ==
    [ npol |-> npol, ndim |-> ndim, nchan |-> nchan, nsamp |-> nsamp,
      nheap |-> nheap, nbit |-> nbit, nfreq_bins |-> nfreq_bins,
      ntime_bins |-> ntime_bins, nrebin |-> nrebin, start_chan |-> 0,
      dtype |-> "unset" ]

\* A variant of the nbit test that also lets 4-bit samples through.
nbit_is_valid_or_4(nbit) == nbit \in {4, 8, 16}

\* self.nbit in [8, 16]
nbit_is_valid(nbit) == nbit \in {8, 16}

\* __post_init__: the object as it stands when the method returns or raises.
StatConfig__post_init__(self) ==
    IF ~nbit_is_valid(self.nbit)
    THEN [raised |-> "AssertionError", self |-> self]
    ELSE
    LET s1 == [self EXCEPT !.dtype = IF self.nbit = 8 THEN "int8" ELSE "int16"]
    IN  IF s1.nfreq_bins = 0
        THEN [raised |-> "ZeroDivisionError", self |-> s1]
        ELSE
        LET s2 == [s1 EXCEPT
                     !.nfreq_bins = _recalc_nbins(s1.nchan, s1.nfreq_bins)]
        IN  IF s2.ntime_bins = 0
            THEN [raised |-> "ZeroDivisionError", self |-> s2]
            ELSE [ raised |-> OK,
                   self |-> [s2 EXCEPT
                       !.ntime_bins =
                           _recalc_nbins(s2.nheap * s2.nsamp, s2.ntime_bins)] ]

\* StatConfig(...) for the arguments the generated __init__ stored in req:
\* what the caller gets (config), what was asked (req) and the object
\* __post_init__ worked on (self).
StatConfig_call(req) ==
    LET r == StatConfig__post_init__(req)
    IN  [ done |-> TRUE, raised |-> r.raised, req |-> req, self |-> r.self,
          config |-> IF r.raised = OK THEN r.self ELSE None ]

StatConfig(npol, ndim, nchan, nsamp, nheap, nbit, nfreq_bins, ntime_bins, nrebin) ==
    StatConfig_call(StatConfig_new(npol, ndim, nchan, nsamp, nheap, nbit,
                                   nfreq_bins, ntime_bins, nrebin))

nbit_limit(config) == 2 ^ (config.nbit - 1)

clipped_low(config) == 0 - nbit_limit(config)

clipped_high(config) == nbit_limit(config) - 1

rfi_excised_channel_indexes(config) == {}

\* A variant that also leaves the first channel out.
non_rfi_channel_indexes_after_first(config) ==
    {c \in 1 .. config.nchan - 1 : c \notin rfi_excised_channel_indexes(config)}

non_rfi_channel_indexes(config) ==
    {c \in 0 .. config.nchan - 1 : c \notin rfi_excised_channel_indexes(config)}

\* A variant with half as many histogram bins.
nbin_half(config) == 2 ^ (config.nbit - 1)

nbin(config) == 2 ^ config.nbit

rebin_offset(config) == config.nrebin \div 2

rebin_max(config) == config.nrebin - 1

total_samples_per_channel(config) == config.nheap * config.nsamp

(***************************************************************************)
(* numpy: shapes of the results of the array operations _calc_stats uses.  *)
(***************************************************************************)
RECURSIVE np_prod(_)
np_prod(shape) ==
    IF shape = <<>> THEN 1 ELSE Head(shape) * np_prod(Tail(shape))

\* The index tuples of an array of the given shape (0-based, like numpy).
RECURSIVE np_ndindex(_)
np_ndindex(shape) ==
    IF shape = <<>>
    THEN {<<>>}
    ELSE {<<i>> \o t : i \in 0 .. Head(shape) - 1, t \in np_ndindex(Tail(shape))}

\* A reduction (mean, var, sum, max, count) over the last k axes.
np_reduce_last(shape, k) == SubSeq(shape, 1, Len(shape) - k)

\* A reduction over axis 1 (the second axis).
np_reduce_axis1(shape) == <<shape[1]>> \o SubSeq(shape, 3, Len(shape))

\* arr[:, :, idx] and arr[:, :, idx, :]: axis 2 takes the length of idx.
np_take_axis2(shape, idx) == [shape EXCEPT ![3] = Cardinality(idx)]

\* arr[:, idx, a:b]: axis 1 takes the length of idx, the last axis b - a.
np_take_axis1(shape, idx) == [shape EXCEPT ![2] = Cardinality(idx)]

\* np.reshape(arr, newshape=(a, b, -1)).
np_reshape_3(shape, a, b) == <<a, b, np_prod(shape) \div (a * b)>>

\* np.linspace(..., num=num): a vector of num points.
np_linspace(num) == [shape |-> <<num>>, dtype |-> "float64"]

np_array(shape, dtype) == [shape |-> shape, dtype |-> dtype]

(***************************************************************************)
(* utility/hdf5_file_generator.py: simple_gaussian_generator.              *)
(***************************************************************************)
\* np.rint(np.random.randn(...) / scale): one integer per sample.  The draw
\* is an arbitrary choice; a seed selects one of a few sample patterns that
\* lie below, at, inside and above the clip range.
randn_over_scale(config, seed, idx) ==
    LET lo == clipped_low(config)
        hi == clipped_high(config)
        choices == <<0, hi + 3, 1, lo, 0 - 1, hi, lo - 5, 2, hi - 1, lo + 1>>
        k == (seed * 3 + idx[1] * 7 + idx[2] * 5 + idx[3] * 2 + idx[4])
                 % Len(choices)
    IN  choices[k + 1]

\* ndarray.astype of a whole-number value to a signed nbit-wide integer.
astype_int(v, nbit) ==
    ((v + 2 ^ (nbit - 1)) % (2 ^ nbit)) - 2 ^ (nbit - 1)

\* data = np.rint(np.random.randn(npol, ndim, nchan, total) / config.scale)
simple_gaussian_rint(config, seed) ==
    [idx \in np_ndindex(<<config.npol, config.ndim, config.nchan,
                          total_samples_per_channel(config)>>) |->
        randn_over_scale(config, seed, idx)]

\* A variant of the generator's data without the two masked assignments.
simple_gaussian_data_unclipped(config, seed) ==
    simple_gaussian_rint(config, seed)

\* data after data[data < min_value] = min_value and
\* data[data > max_value] = max_value.
simple_gaussian_data(config, seed) ==
    LET min_value == clipped_low(config)
        max_value == clipped_high(config)
        data == simple_gaussian_rint(config, seed)
    IN  [idx \in DOMAIN data |->
            IF data[idx] < min_value THEN min_value
            ELSE IF data[idx] > max_value THEN max_value ELSE data[idx]]

\* The array the generator yields: data.astype(dtype=config.dtype)
simple_gaussian_generator(config, seed) ==
    LET data == simple_gaussian_data(config, seed)
    IN  [ shape |-> <<config.npol, config.ndim, config.nchan,
                      total_samples_per_channel(config)>>,
          dtype |-> config.dtype,
          v |-> [idx \in DOMAIN data |-> astype_int(data[idx], config.nbit)] ]

(***************************************************************************)
(* utility/hdf5_file_generator.py: _calc_stats.                            *)
(***************************************************************************)
\* The shapes np.zeros is given for the arrays the loops fill in.
histogram_1d_shape(config) == <<config.npol, config.ndim, nbin(config)>>

rebinned_histogram_1d_shape(config) ==
    <<config.npol, config.ndim, config.nrebin>>

rebinned_histogram_2d_shape(config) ==
    <<config.npol, config.nrebin, config.nrebin>>
\* A variant of the spectrogram shape with the two bin axes exchanged.
spectrogram_shape_transposed(config) ==
    <<config.npol, config.ntime_bins, config.nfreq_bins>>

spectrogram_shape(config) ==
    <<config.npol, config.nfreq_bins, config.ntime_bins>>

timeseries_shape(config) == <<config.npol, config.ntime_bins, 3>>

\* enumerate(range(0, stop, step)): the (position, start) pairs.
enumerate_range(stop, step) ==
    {<<k, k * step>> : k \in {j \in 0 .. stop : j * step < stop}}

\* The (freq_bin, temporal_bin) cells the spectrogram loops assign.
spectrogram_cells(config) ==
    LET temporal_bin_factor ==
            total_samples_per_channel(config) \div config.ntime_bins
        freq_bin_factor == config.nchan \div config.nfreq_bins
    IN  { <<fb[1], tb[1]>> :
            tb \in enumerate_range(total_samples_per_channel(config),
                                   temporal_bin_factor),
            fb \in enumerate_range(config.nchan, freq_bin_factor) }

\* The keyword arguments _calc_stats gives StatisticsMetadata.
calc_metadata_kwargs(config, params, l) ==
    [ file_format_version |-> "1.0.0",
      eb_id |-> params.eb_id,
      telescope |-> params.telescope,
      scan_id |-> params.scan_id,
      beam_id |-> params.beam_id,
      utc_start |-> params.utc_start,
      t_min |-> "0",
      t_max |-> "total_sample_time",
      frequency_mhz |-> "frequency_mhz",
      bandwidth_mhz |-> "bandwidth_mhz",
      start_chan |-> config.start_chan,
      npol |-> config.npol,
      ndim |-> config.ndim,
      nchan |-> config.nchan,
      nchan_ds |-> config.nfreq_bins,
      ndat_ds |-> config.ntime_bins,
      histogram_nbin |-> nbin(config),
      nrebin |-> config.nrebin,
      channel_freq_mhz |-> l.channel_freq_mhz,
      timeseries_bins |-> l.timeseries_bins,
      frequency_bins |-> l.frequency_bins,
      num_samples |-> l.num_samples,
      num_samples_rfi_excised |-> l.num_samples_rfi_excised,
      num_samples_spectrum |-> l.num_samples_spectrum,
      num_invalid_packets |-> 0 ]

\* The keyword arguments _calc_stats gives StatisticsData.
calc_data_kwargs(l) ==
    [ mean_frequency_avg |-> l.mean_frequency_avg,
      mean_frequency_avg_rfi_excised |-> l.mean_frequency_avg_rfi_excised,
      variance_frequency_avg |-> l.variance_frequency_avg,
      variance_frequency_avg_rfi_excised |->
          l.variance_frequency_avg_rfi_excised,
      mean_spectrum |-> l.mean_spectrum,
      variance_spectrum |-> l.variance_spectrum,
      mean_spectral_power |-> l.mean_spectral_power,
      max_spectral_power |-> l.max_spectral_power,
      histogram_1d_freq_avg |-> l.histogram_1d_freq_avg,
      histogram_1d_freq_avg_rfi_excised |->
          l.histogram_1d_freq_avg_rfi_excised,
      rebinned_histogram_2d_freq_avg |-> l.rebinned_histogram_2d_freq_avg,
      rebinned_histogram_2d_freq_avg_rfi_excised |->
          l.rebinned_histogram_2d_freq_avg_rfi_excised,
      rebinned_histogram_1d_freq_avg |-> l.rebinned_histogram_1d_freq_avg,
      rebinned_histogram_1d_freq_avg_rfi_excised |->
          l.rebinned_histogram_1d_freq_avg_rfi_excised,
      num_clipped_samples_spectrum |-> l.num_clipped_samples_spectrum,
      num_clipped_samples |-> l.num_clipped_samples,
      num_clipped_samples_rfi_excised |-> l.num_clipped_samples_rfi_excised,
      spectrogram |-> l.spectrogram,
      timeseries |-> l.timeseries,
      timeseries_rfi_excised |-> l.timeseries_rfi_excised ]

RECURSIVE sum_over(_, _)
sum_over(f, S) ==
    IF S = {} THEN 0
    ELSE LET x == CHOOSE y \in S : TRUE
         IN  f[x] + sum_over(f, S \ {x})

\* The components (pol, dim) of the raw array.
pol_dim(config) == (0 .. config.npol - 1) \X (0 .. config.ndim - 1)

\* A variant of the clipped-sample count that tests the upper bound only.
calc_num_clipped_samples_spectrum_high(config, raw) ==
    [pdc \in pol_dim(config) \X (0 .. config.nchan - 1) |->
        Cardinality({s \in 0 .. total_samples_per_channel(config) - 1 :
            raw.v[<<pdc[1][1], pdc[1][2], pdc[2], s>>]
                >= clipped_high(config)})]

\* np.sum(clipped_mask, axis=-1): per component and channel, the number of
\* samples at or beyond a clip bound.
calc_num_clipped_samples_spectrum(config, raw) ==
    [pdc \in pol_dim(config) \X (0 .. config.nchan - 1) |->
        Cardinality({s \in 0 .. total_samples_per_channel(config) - 1 :
            LET x == raw.v[<<pdc[1][1], pdc[1][2], pdc[2], s>>]
            IN  x <= clipped_low(config) \/ x >= clipped_high(config)})]

\* np.sum(num_clipped_samples_spectrum[:, :, idx], axis=-1)
calc_num_clipped_samples(config, num_clipped_samples_spectrum, idx) ==
    [pd \in pol_dim(config) |->
        sum_over([c \in idx |-> num_clipped_samples_spectrum[<<pd, c>>]],
                 idx)]

\* The arrays _calc_stats computes before it builds the two dataclasses;
\* raw is the array next(simple_gaussian_generator(config=config)) yields.
\* An array is its shape and dtype; num_clipped_samples also carries its
\* values v, which tell the statistics of one draw from those of another.
calc_locals(config, raw) ==
    LET non_rfi_channel_idx == non_rfi_channel_indexes(config)
        raw_flattened ==
            np_array(np_reshape_3(raw.shape, config.npol, config.ndim),
                     raw.dtype)
        scaled == np_array(raw.shape, "float64")
        mean_spectrum == np_array(np_reduce_last(scaled.shape, 1), "float32")
        power == np_array(np_reduce_axis1(scaled.shape), "float32")
        num_samples_spectrum == np_array(<<config.nchan>>, "uint32")
        num_clipped_samples_spectrum ==
            np_array(np_reduce_last(raw.shape, 1), "uint32")
    IN  [ raw |-> raw,
          raw_flattened |-> raw_flattened,
          raw_rebinned |-> np_array(raw_flattened.shape, raw_flattened.dtype),
          scaled |-> scaled,
          power |-> power,
          num_samples_spectrum |-> num_samples_spectrum,
          num_samples |-> config.nchan * total_samples_per_channel(config),
          num_samples_rfi_excised |->
              Cardinality(non_rfi_channel_idx)
                  * total_samples_per_channel(config),
          channel_freq_mhz |-> np_linspace(config.nchan),
          frequency_bins |-> np_linspace(config.nfreq_bins),
          timeseries_bins |-> np_linspace(config.ntime_bins),
          mean_spectrum |-> mean_spectrum,
          mean_frequency_avg |->
              np_array(np_reduce_last(mean_spectrum.shape, 1), "float32"),
          mean_frequency_avg_rfi_excised |->
              np_array(np_reduce_last(
                  np_take_axis2(mean_spectrum.shape, non_rfi_channel_idx), 1),
                  "float32"),
          variance_spectrum |->
              np_array(np_reduce_last(scaled.shape, 1), "float32"),
          variance_frequency_avg |->
              np_array(np_reduce_last(scaled.shape, 2), "float32"),
          variance_frequency_avg_rfi_excised |->
              np_array(np_reduce_last(
                  np_take_axis2(scaled.shape, non_rfi_channel_idx), 2),
                  "float32"),
          mean_spectral_power |->
              np_array(np_reduce_last(power.shape, 1), "float32"),
          max_spectral_power |->
              np_array(np_reduce_last(power.shape, 1), "float32"),
          histogram_1d_freq_avg |->
              np_array(histogram_1d_shape(config), "uint32"),
          histogram_1d_freq_avg_rfi_excised |->
              np_array(histogram_1d_shape(config), "uint32"),
          rebinned_histogram_1d_freq_avg |->
              np_array(rebinned_histogram_1d_shape(config), "uint32"),
          rebinned_histogram_1d_freq_avg_rfi_excised |->
              np_array(rebinned_histogram_1d_shape(config), "uint32"),
          rebinned_histogram_2d_freq_avg |->
              np_array(rebinned_histogram_2d_shape(config), "uint32"),
          rebinned_histogram_2d_freq_avg_rfi_excised |->
              np_array(rebinned_histogram_2d_shape(config), "uint32"),
          num_clipped_samples_spectrum |-> num_clipped_samples_spectrum,
          num_clipped_samples |->
              [ shape |-> np_reduce_last(num_clipped_samples_spectrum.shape, 1),
                dtype |-> "uint32",
                v |-> calc_num_clipped_samples(
                          config,
                          calc_num_clipped_samples_spectrum(config, raw),
                          0 .. config.nchan - 1) ],
          num_clipped_samples_rfi_excised |->
              np_array(np_reduce_last(
                  np_take_axis2(num_clipped_samples_spectrum.shape,
                                non_rfi_channel_idx), 1), "uint32"),
          spectrogram |-> np_array(spectrogram_shape(config), "float32"),
          spectrogram_cells |-> spectrogram_cells(config),
          timeseries |-> np_array(timeseries_shape(config), "float32"),
          timeseries_rfi_excised |->
              np_array(timeseries_shape(config), "float32") ]

\* What stops _calc_stats before the dataclasses are built: a failed shape
\* assertion, or an index outside an array (the 2-D histograms address
\* polarisations 0 and 1 and components 0 and 1; the loops address
\* spectrogram[:, freq_bin, temporal_bin]).
calc_raised(config, l) ==
    IF \/ l.mean_spectrum.shape # <<config.npol, config.ndim, config.nchan>>
       \/ l.mean_frequency_avg.shape # <<config.npol, config.ndim>>
       \/ l.mean_frequency_avg_rfi_excised.shape # <<config.npol, config.ndim>>
       \/ l.variance_spectrum.shape # <<config.npol, config.ndim, config.nchan>>
       \/ l.variance_frequency_avg.shape # <<config.npol, config.ndim>>
       \/ l.variance_frequency_avg_rfi_excised.shape
              # <<config.npol, config.ndim>>
       \/ l.power.shape # <<config.npol, config.nchan,
                            total_samples_per_channel(config)>>
       \/ l.mean_spectral_power.shape # <<config.npol, config.nchan>>
       \/ l.max_spectral_power.shape # <<config.npol, config.nchan>>
    THEN "AssertionError"
    ELSE IF config.npol < 2 \/ config.ndim < 2
    THEN "IndexError"
    ELSE IF \/ l.num_clipped_samples_spectrum.shape
                # <<config.npol, config.ndim, config.nchan>>
            \/ l.num_clipped_samples.shape # <<config.npol, config.ndim>>
            \/ l.num_clipped_samples_rfi_excised.shape
                # <<config.npol, config.ndim>>
    THEN "AssertionError"
    ELSE IF \E c \in l.spectrogram_cells :
                c[1] >= l.spectrogram.shape[2] \/ c[2] >= l.spectrogram.shape[3]
    THEN "IndexError"
    ELSE OK

(***************************************************************************)
(* utility/hdf5_file_generator.py: _calc_stats, the values of the arrays.  *)
(* An integer array is a function from its 0-based indexes to integers; a  *)
(* histogram is the function from its occupied bins to their counts (the   *)
(* other bins hold 0).  A floating-point reduction (mean, var, sum, max,   *)
(* min) is the term of its operation and operands: the cells reduced and,  *)
(* for moments of the samples, their values.                               *)
(***************************************************************************)
\* The total of the counts of a histogram.
np_sum(hist) == sum_over(hist, DOMAIN hist)

\* array + k for an integer array nbit wide and a Python int k: the result
\* keeps the array's width, and wraps, when k fits that width; a k that does
\* not fit widens the result.
np_add_scalar(v, k, nbit) ==
    IF k < 2 ^ (nbit - 1) THEN astype_int(v + k, nbit) ELSE v + k

np_clip(v, a_min, a_max) ==
    IF v < a_min THEN a_min ELSE IF v > a_max THEN a_max ELSE v

\* range=(first_edge, last_edge) with first_edge one above the low bound.
histogram_range_above_low(config) ==
    <<clipped_low(config) + 1, clipped_high(config)>>

\* range=(config.clipped_low, config.clipped_high)
histogram_range(config) == <<clipped_low(config), clipped_high(config)>>

\* range=(0, config.nrebin - 1)
rebinned_histogram_range(config) == <<0, config.nrebin - 1>>

\* The bin np.histogram counts x in: bins equal-width bins over the range,
\* the last one closed on the right.
np_histogram_bin(x, bins, range) ==
    LET w == range[2] - range[1]
        k == x - range[1]
    IN  IF k = w THEN bins - 1
        ELSE k * (bins \div w) + (k * (bins % w)) \div w

\* np.histogram(a, bins=bins, range=range)[0]; values outside the range are
\* not counted.
np_histogram(a, bins, range) ==
    LET kept == {i \in DOMAIN a : a[i] >= range[1] /\ a[i] <= range[2]}
    IN  [b \in {np_histogram_bin(a[i], bins, range) : i \in kept} |->
            Cardinality({i \in kept :
                            np_histogram_bin(a[i], bins, range) = b})]

\* A variant of the 2-D histogram with y along the first axis.
np_histogram2d_y_first(x, y, bins, range) ==
    LET inside(v) == v >= range[1] /\ v <= range[2]
        kept == {i \in DOMAIN x : inside(x[i]) /\ inside(y[i])}
        cell(i) == <<np_histogram_bin(y[i], bins, range),
                     np_histogram_bin(x[i], bins, range)>>
    IN  [b \in {cell(i) : i \in kept} |->
            Cardinality({i \in kept : cell(i) = b})]

\* np.histogram2d(x, y, bins=bins, range=[range, range])[0]
np_histogram2d(x, y, bins, range) ==
    LET inside(v) == v >= range[1] /\ v <= range[2]
        kept == {i \in DOMAIN x : inside(x[i]) /\ inside(y[i])}
        cell(i) == <<np_histogram_bin(x[i], bins, range),
                     np_histogram_bin(y[i], bins, range)>>
    IN  [b \in {cell(i) : i \in kept} |->
            Cardinality({i \in kept : cell(i) = b})]

\* a[idx] for a vector a and a list of indexes idx.
np_take(a, idx) == [i \in idx |-> a[i]]

\* The slice start : start + factor of an axis.
np_slice_to_next_start(start, factor) == start .. start + factor

np_slice(start, factor) == start .. start + factor - 1

\* np.var(..., ddof=1) of the samples of component pd of scaled in the given
\* (channel, sample) cells: the term of the reduction and its operands.
np_var(raw, pd, cells) ==
    [ var |-> [cs \in cells |-> raw.v[<<pd[1], pd[2], cs[1], cs[2]>>]],
      ddof |-> 1 ]

\* A variant of the frequency-averaged variance: the mean over the channels
\* idx of the per-channel variances.
calc_variance_frequency_avg_of_spectrum(raw, pd, idx, samples) ==
    [mean |-> [c \in idx |-> np_var(raw, pd, {c} \X samples)]]

\* np.var(scaled[:, :, idx, :], axis=(-2, -1), ddof=1)[pd]: one variance
\* over all samples of all channels of idx.
calc_variance_frequency_avg(raw, pd, idx, samples) ==
    np_var(raw, pd, idx \X samples)

\* A variant of the enum with the indexes of MAX and MEAN exchanged.
TimeseriesDimension_mean_first == [MAX |-> 2, MIN |-> 1, MEAN |-> 0]

\* hdf5/consts.py: class TimeseriesDimension(IntEnum)
TimeseriesDimension == [MAX |-> 0, MIN |-> 1, MEAN |-> 2]

\* timeseries[:, temporal_bin, k] after the assignments of the loop over the
\* temporal bins, for every polarisation: the array starts as np.zeros of
\* shape (npol, ntime_bins, 3); blocks holds, per temporal bin the loop
\* visits, the cells of power its slice covers.
calc_timeseries(config, blocks) ==
    [tk \in (0 .. config.ntime_bins - 1) \X (0 .. 2) |->
        IF tk[1] \notin DOMAIN blocks THEN 0
        ELSE IF tk[2] = TimeseriesDimension.MAX
        THEN [max |-> blocks[tk[1]].max]
        ELSE IF tk[2] = TimeseriesDimension.MIN
        THEN [min |-> blocks[tk[1]].min]
        ELSE IF tk[2] = TimeseriesDimension.MEAN
        THEN [mean |-> blocks[tk[1]].mean]
        ELSE 0]

\* stats.py: get_timeseries_data, the Max, Min and Mean columns of the data
\* frame per temporal bin (for every polarisation), read from the last axis
\* of the timeseries array.
get_timeseries_data(timeseries_data) ==
    [tb \in {tk[1] : tk \in DOMAIN timeseries_data} |->
        [ Max |-> timeseries_data[<<tb, TimeseriesDimension.MAX>>],
          Min |-> timeseries_data[<<tb, TimeseriesDimension.MIN>>],
          Mean |-> timeseries_data[<<tb, TimeseriesDimension.MEAN>>] ]]

\* The values of the arrays _calc_stats computes from raw.
calc_values(config, raw) ==
    LET non_rfi_channel_idx == non_rfi_channel_indexes(config)
        total == total_samples_per_channel(config)
        channels == 0 .. config.nchan - 1
        samples == 0 .. total - 1
        raw_flattened ==
            [pd \in pol_dim(config) |->
                [j \in 0 .. config.nchan * total - 1 |->
                    raw.v[<<pd[1], pd[2], j \div total, j % total>>]]]
        raw_rebinned ==
            [pd \in pol_dim(config) |->
                [j \in DOMAIN raw_flattened[pd] |->
                    np_clip(np_add_scalar(raw_flattened[pd][j],
                                          rebin_offset(config), config.nbit),
                            0, rebin_max(config))]]
        \* np.mean(scaled, axis=-1)
        mean_spectrum ==
            [pdc \in pol_dim(config) \X channels |->
                [mean |-> [s \in samples |->
                              raw.v[<<pdc[1][1], pdc[1][2], pdc[2], s>>]]]]
        \* np.mean(mean_spectrum[:, :, idx], axis=-1)
        mean_over(idx) ==
            [pd \in pol_dim(config) |->
                [mean |-> [c \in idx |-> mean_spectrum[<<pd, c>>]]]]
        \* np.var(scaled[:, :, idx, :], axis=(-2, -1), ddof=1)
        var_over(idx) ==
            [pd \in pol_dim(config) |->
                calc_variance_frequency_avg(raw, pd, idx, samples)]
        num_clipped_samples_spectrum ==
            calc_num_clipped_samples_spectrum(config, raw)
        clipped_over(idx) ==
            calc_num_clipped_samples(config, num_clipped_samples_spectrum, idx)
        temporal_bin_factor == total \div config.ntime_bins
        freq_bin_factor == config.nchan \div config.nfreq_bins
        temporal_bins == enumerate_range(total, temporal_bin_factor)
        freq_bins == enumerate_range(config.nchan, freq_bin_factor)
        \* power[:, chans, isamp : isamp + temporal_bin_factor]: its cells
        power_slice(chans, isamp) ==
            (chans \cap channels)
                \X (np_slice(isamp, temporal_bin_factor) \cap samples)
        timeseries_over(idx) ==
            [tb \in {t[1] : t \in temporal_bins} |->
                LET isamp == (CHOOSE t \in temporal_bins : t[1] = tb)[2]
                    cells == power_slice(idx, isamp)
                IN  [max |-> cells, min |-> cells, mean |-> cells]]
    IN  [ raw_flattened |-> raw_flattened,
          raw_rebinned |-> raw_rebinned,
          \* np.sum(scaled**2, axis=1): one cell per (channel, sample)
          power |-> channels \X samples,
          mean_spectrum |-> mean_spectrum,
          \* np.var(scaled, axis=-1, ddof=1)
          variance_spectrum |->
              [pdc \in pol_dim(config) \X channels |->
                  np_var(raw, pdc[1], {pdc[2]} \X samples)],
          mean_frequency_avg |-> mean_over(channels),
          mean_frequency_avg_rfi_excised |-> mean_over(non_rfi_channel_idx),
          variance_frequency_avg |-> var_over(channels),
          variance_frequency_avg_rfi_excised |-> var_over(non_rfi_channel_idx),
          histogram_1d_freq_avg |->
              [pd \in pol_dim(config) |->
                  np_histogram(raw_flattened[pd], nbin(config),
                               histogram_range(config))],
          histogram_1d_freq_avg_rfi_excised |->
              [pd \in pol_dim(config) |->
                  np_histogram(np_take(raw_flattened[pd], non_rfi_channel_idx),
                               nbin(config), histogram_range(config))],
          rebinned_histogram_1d_freq_avg |->
              [pd \in pol_dim(config) |->
                  np_histogram(raw_rebinned[pd], config.nrebin,
                               rebinned_histogram_range(config))],
          rebinned_histogram_1d_freq_avg_rfi_excised |->
              [pd \in pol_dim(config) |->
                  np_histogram(np_take(raw_rebinned[pd], non_rfi_channel_idx),
                               config.nrebin,
                               rebinned_histogram_range(config))],
          rebinned_histogram_2d_freq_avg |->
              [p \in {0, 1} |->
                  np_histogram2d(raw_rebinned[<<p, 0>>], raw_rebinned[<<p, 1>>],
                                 config.nrebin,
                                 rebinned_histogram_range(config))],
          rebinned_histogram_2d_freq_avg_rfi_excised |->
              [p \in {0, 1} |->
                  np_histogram2d(
                      np_take(raw_rebinned[<<p, 0>>], non_rfi_channel_idx),
                      np_take(raw_rebinned[<<p, 1>>], non_rfi_channel_idx),
                      config.nrebin, rebinned_histogram_range(config))],
          num_clipped_samples_spectrum |-> num_clipped_samples_spectrum,
          num_clipped_samples |-> clipped_over(channels),
          num_clipped_samples_rfi_excised |-> clipped_over(non_rfi_channel_idx),
          \* spectrogram[:, freq_bin, temporal_bin] = np.sum(slice): the cells
          \* of power summed into each cell the loops assign
          spectrogram |->
              [ft \in {<<fb[1], tb[1]>> : fb \in freq_bins,
                                          tb \in temporal_bins} |->
                  LET ichan == (CHOOSE fb \in freq_bins : fb[1] = ft[1])[2]
                      isamp == (CHOOSE tb \in temporal_bins : tb[1] = ft[2])[2]
                  IN  [sum |-> power_slice(np_slice(ichan, freq_bin_factor),
                                           isamp)]],
          timeseries |-> timeseries_over(channels),
          timeseries_rfi_excised |-> timeseries_over(non_rfi_channel_idx),
          \* the elements of the two arrays along their last axis
          timeseries_elements |->
              calc_timeseries(config, timeseries_over(channels)),
          timeseries_rfi_excised_elements |->
              calc_timeseries(config, timeseries_over(non_rfi_channel_idx)) ]

\* _calc_stats(**params) with the dataclasses of the given hdf5.model: its
\* locals and the Statistics it returns, or the exception it raises; raw is
\* the array the sample generator yields.
_calc_stats_of(model, params, raw) ==
    LET config == params.config
        l == calc_locals(config, raw)
        early == calc_raised(config, l)
        metadata_kwargs == calc_metadata_kwargs(config, params, l)
        data_kwargs == calc_data_kwargs(l)
        metadata == dataclass_init(model.StatisticsMetadata,
                                   StatisticsMetadata_defaults,
                                   metadata_kwargs)
        data == dataclass_init(model.StatisticsData, <<>>, data_kwargs)
        raised == IF early # OK THEN early
                  ELSE IF metadata.raised # OK THEN metadata.raised
                  ELSE data.raised
    IN  [ raised |-> raised,
          locals |-> l,
          metadata_kwargs |-> metadata_kwargs,
          data_kwargs |-> data_kwargs,
          stats |-> IF raised = OK
                    THEN [metadata |-> metadata.obj, data |-> data.obj]
                    ELSE None ]

\* _calc_stats(**params) as src has it.
_calc_stats(params, raw) == _calc_stats_of(hdf5_model, params, raw)

(***************************************************************************)
(* h5py / numpy: values as they are stored in and read from a file.        *)
(***************************************************************************)
\* A str stored under a string dtype is held as its UTF-8 bytes.
str_encode(s) == [bytes |-> s]

\* bytes.decode("utf-8")
bytes_decode(b) == b.bytes

\* A Python value converted to the type of a header field.  An unsigned
\* type keeps a count it can hold (every count of the model is below 2^31).
np_cast(v, type) ==
    IF type = "string" THEN str_encode(v)
    ELSE IF type \in {"uint64", "uint32"}
    THEN IF v >= 0 THEN v ELSE [out_of_range |-> v, type |-> type]
    ELSE v

\* np.array([values], dtype=dtype)[0]: one record, the values taken in the
\* order of the fields of dtype; numpy refuses a tuple of another length.
np_array_struct(values, dtype) ==
    IF Len(values) # Len(dtype)
    THEN [raised |-> "ValueError", row |-> None]
    ELSE [ raised |-> OK,
           row |-> [n \in Range(dtype_names(dtype)) |->
                      LET i == CHOOSE j \in DOMAIN dtype : dtype[j][1] = n
                      IN  np_cast(values[i], dtype[i][2])] ]

\* np.zeros(shape, dtype), and a dataset create_dataset has just made: every
\* element is 0.
np_zeros(shape, dtype) == [shape |-> shape, dtype |-> dtype, zeros |-> TRUE]

\* The value a field of a new dataset holds before it is assigned.
h5_fill(type) ==
    IF type = "string" THEN str_encode("")
    ELSE IF type = "float64" THEN "0"
    ELSE IF type = "vlen_float64" THEN [shape |-> <<0>>, dtype |-> "float64"]
    ELSE IF type = "vlen_uint32" THEN [shape |-> <<0>>, dtype |-> "uint32"]
    ELSE 0

\* The row of a new dataset of a compound type.
h5_fill_struct(dtype) ==
    [n \in Range(dtype_names(dtype)) |->
        h5_fill((CHOOSE x \in Range(dtype) : x[1] = n)[2])]

\* ds[...] = data: the dataset holds the elements of data in its own dtype.
h5_assign(ds, data) ==
    [a \in DOMAIN data |-> IF a = "dtype" THEN ds.dtype ELSE data[a]]

\* file.create_dataset(key, ...) and ds[...] = data, for a sequence of
\* (key, value) pairs: the top-level entries of the file, each holding the
\* value of the last pair of its key.
h5_entries(pairs) ==
    [k \in {pairs[i][1] : i \in DOMAIN pairs} |->
        LET at == {i \in DOMAIN pairs : pairs[i][1] = k}
        IN  pairs[CHOOSE i \in at : \A j \in at : j <= i][2]]

\* A variant of the exists() test that takes every path to exist.
path_exists_unchecked(file) == TRUE

\* pathlib.Path.exists() of the path of a file: None is no file.
path_exists(file) == file # None

\* h5py.File(path, mode): the open handle, or the OSError of the file
\* system.  Mode "r" needs the file; mode "w" needs the parent directory and
\* starts an empty file.
h5py_File(file, parent, mode) ==
    IF mode = "r"
    THEN IF file = None THEN [raised |-> "OSError", f |-> None]
         ELSE [ raised |-> OK,
                f |-> [mode |-> "r", entries |-> file, closed |-> FALSE] ]
    ELSE IF ~parent THEN [raised |-> "OSError", f |-> None]
         ELSE [ raised |-> OK,
                f |-> [ mode |-> "w", entries |-> [k \in {} |-> None],
                        closed |-> FALSE ] ]

\* A variant of leaving the with block that does not close the handle.
h5py_File_left_open(f) == f

\* Leaving a "with h5py.File(...) as f" block, normally or by an exception:
\* the handle is closed.
h5py_File__exit__(f) == [f EXCEPT !.closed = TRUE]

(***************************************************************************)
(* utility/hdf5_file_generator.py: Hdf5FileGenerator.                      *)
(***************************************************************************)
Hdf5FileGenerator(eb_id, telescope, scan_id, beam_id, config, utc_start) ==
    [ _params |-> [ config |-> config, eb_id |-> eb_id,
                    telescope |-> telescope, scan_id |-> scan_id,
                    beam_id |-> beam_id, utc_start |-> utc_start ],
      _stats |-> None ]

\* A variant of the stats property without the assertion.
Hdf5FileGenerator_stats_unchecked(self) ==
    [raised |-> OK, value |-> self._stats]

\* The stats property: the Statistics generate() stored, or the failed
\* assertion.
Hdf5FileGenerator_stats(self) ==
    IF self._stats = None
    THEN [raised |-> "AssertionError", value |-> None]
    ELSE [raised |-> OK, value |-> self._stats]

\* The metadata attributes generate() packs into the header row, in order.
generate_header_attrs ==
    << "eb_id", "telescope", "scan_id", "beam_id", "utc_start", "t_min",
       "t_max", "frequency_mhz", "bandwidth_mhz", "start_chan", "npol",
       "ndim", "nchan", "nchan_ds", "ndat_ds", "histogram_nbin", "nrebin",
       "channel_freq_mhz", "frequency_bins", "timeseries_bins",
       "num_samples", "num_samples_rfi_excised", "num_samples_spectrum",
       "num_invalid_packets" >>

\* The (key, data attribute) pairs of the _create_data_set calls, in order.
generate_data_sets ==
    << <<"MEAN_FREQUENCY_AVG", "mean_frequency_avg">>,
       <<"MEAN_FREQUENCY_AVG_RFI_EXCISED", "mean_frequency_avg_rfi_excised">>,
       <<"VARIANCE_FREQUENCY_AVG", "variance_frequency_avg">>,
       <<"VARIANCE_FREQUENCY_AVG_RFI_EXCISED",
         "variance_frequency_avg_rfi_excised">>,
       <<"MEAN_SPECTRUM", "mean_spectrum">>,
       <<"VARIANCE_SPECTRUM", "variance_spectrum">>,
       <<"MEAN_SPECTRAL_POWER", "mean_spectral_power">>,
       <<"MAX_SPECTRAL_POWER", "max_spectral_power">>,
       <<"HISTOGRAM_1D_FREQ_AVG", "histogram_1d_freq_avg">>,
       <<"HISTOGRAM_1D_FREQ_AVG_RFI_EXCISED",
         "histogram_1d_freq_avg_rfi_excised">>,
       <<"HISTOGRAM_REBINNED_2D_FREQ_AVG", "rebinned_histogram_2d_freq_avg">>,
       <<"HISTOGRAM_REBINNED_2D_FREQ_AVG_RFI_EXCISED",
         "rebinned_histogram_2d_freq_avg_rfi_excised">>,
       <<"HISTOGRAM_REBINNED_1D_FREQ_AVG", "rebinned_histogram_1d_freq_avg">>,
       <<"HISTOGRAM_REBINNED_1D_FREQ_AVG_RFI_EXCISED",
         "rebinned_histogram_1d_freq_avg_rfi_excised">>,
       <<"NUM_CLIPPED_SAMPLES_SPECTRUM", "num_clipped_samples_spectrum">>,
       <<"NUM_CLIPPED_SAMPLES", "num_clipped_samples">>,
       <<"NUM_CLIPPED_SAMPLES_RFI_EXCISED",
         "num_clipped_samples_rfi_excised">>,
       <<"SPECTROGRAM", "spectrogram">>,
       <<"TIMESERIES", "timeseries">>,
       <<"TIMESERIES_RFI_EXCISED", "timeseries_rfi_excised">> >>

\* _create_data_set: a dataset of the array's shape and dtype, filled with it.
_create_data_set(data) == h5_assign(np_zeros(data.shape, data.dtype), data)

\* The statements of the "with h5py.File(path, 'w')" block of generate(),
\* in order, each as the pair of the key and the value its dataset holds
\* after the statement: create_dataset leaves the fill value, the
\* assignment the data.
generate_write_steps(header_type, header_row, data) ==
    << <<HDF5_FILE_FORMAT_VERSION, h5_fill("string")>>,
       <<HDF5_FILE_FORMAT_VERSION, str_encode(FILE_FORMAT_VERSION_1_0_0)>>,
       <<HDF5_HEADER, h5_fill_struct(header_type)>>,
       <<HDF5_HEADER, header_row>> >>
    \o [i \in 1 .. 2 * Len(generate_data_sets) |->
           LET ds == generate_data_sets[(i + 1) \div 2]
               d == data[ds[2]]
           IN  << ds[1],
                  IF i % 2 = 1 THEN np_zeros(d.shape, d.dtype)
                  ELSE _create_data_set(d) >>]

\* The number of statements of the with block.
generate_write_len == 4 + 2 * Len(generate_data_sets)

\* The body of the "with h5py.File(path, 'w')" block of generate(): the
\* entries of the file when the block is left, and the exception that ends
\* it.  The file system fails (OSError) at the statement after the first
\* fail_at ones; with fail_at = generate_write_len every statement runs.
generate_write(header_type, header_row, data, fail_at) ==
    LET steps == generate_write_steps(header_type, header_row, data)
    IN  [ raised |-> IF fail_at < Len(steps) THEN "OSError" ELSE OK,
          entries |-> h5_entries(SubSeq(steps, 1, fail_at)) ]

\* generate() with the given hdf5.model: the exception it ends with (or
\* OK), the file at _file_path and self._stats afterwards, the handle f of
\* the with block as it is left (None: never opened), and what the
\* _calc_stats call computed.  file is the file at _file_path before the
\* call (unlinked first), parent tells whether the directory of _file_path
\* exists, fail_at is where the file system fails in the with block.
generate_of(model, self, file, parent, raw, fail_at) ==
    LET r == _calc_stats_of(model, self._params, raw)
        c == [ locals |-> r.locals, metadata_kwargs |-> r.metadata_kwargs,
               data_kwargs |-> r.data_kwargs ]
    IN  IF r.raised # OK
        THEN [ raised |-> r.raised, file |-> None, _stats |-> self._stats,
               calc |-> c, f |-> None ]
        ELSE
        LET metadata == r.stats.metadata
            header_data ==
                np_array_struct(
                    [i \in DOMAIN generate_header_attrs |->
                        metadata[generate_header_attrs[i]]],
                    model.HDF5_HEADER_TYPE)
        IN  IF header_data.raised # OK
            THEN [ raised |-> header_data.raised, file |-> None,
                   _stats |-> r.stats, calc |-> c, f |-> None ]
            ELSE
            LET opened == h5py_File(None, parent, "w")
            IN  IF opened.raised # OK
                THEN [ raised |-> opened.raised, file |-> None,
                       _stats |-> r.stats, calc |-> c, f |-> None ]
                ELSE
                LET w == generate_write(model.HDF5_HEADER_TYPE,
                                        header_data.row, r.stats.data, fail_at)
                    f == h5py_File__exit__(
                             [opened.f EXCEPT !.entries = w.entries])
                IN  [ raised |-> w.raised, file |-> f.entries,
                      _stats |-> r.stats, calc |-> c, f |-> f ]

\* generate() as src has it, in an existing directory on a file system
\* that does not fail.
generate(self, file, raw) ==
    generate_of(hdf5_model, self, file, TRUE, raw, generate_write_len)

(***************************************************************************)
(* stats.py: Statistics.load_from_file.                                    *)
(***************************************************************************)
\* The (keyword, header field, decoded) triples of the StatisticsMetadata
\* call, in order.
load_header_kwargs ==
    << <<"eb_id", "EB_ID", TRUE>>, <<"telescope", "TELESCOPE", TRUE>>,
       <<"scan_id", "SCAN_ID", FALSE>>, <<"beam_id", "BEAM_ID", TRUE>>,
       <<"utc_start", "UTC_START", TRUE>>, <<"t_min", "T_MIN", FALSE>>,
       <<"t_max", "T_MAX", FALSE>>, <<"frequency_mhz", "FREQ", FALSE>>,
       <<"bandwidth_mhz", "BW", FALSE>>,
       <<"start_chan", "START_CHAN", FALSE>>, <<"npol", "NPOL", FALSE>>,
       <<"ndim", "NDIM", FALSE>>, <<"nchan", "NCHAN", FALSE>>,
       <<"nchan_ds", "NCHAN_DS", FALSE>>, <<"ndat_ds", "NDAT_DS", FALSE>>,
       <<"histogram_nbin", "NBIN_HIST", FALSE>>,
       <<"nrebin", "NREBIN", FALSE>>,
       <<"channel_freq_mhz", "CHAN_FREQ", FALSE>>,
       <<"timeseries_bins", "TIMESERIES_BINS", FALSE>>,
       <<"frequency_bins", "FREQUENCY_BINS", FALSE>>,
       <<"num_samples", HDF5_NUM_SAMPLES, FALSE>>,
       <<"num_samples_rfi_excised", HDF5_NUM_SAMPLES_RFI_EXCISED, FALSE>>,
       <<"num_samples_spectrum", HDF5_NUM_SAMPLES_SPECTRUM, FALSE>>,
       <<"num_invalid_packets", HDF5_NUM_INVALID_PACKETS, FALSE>> >>

\* The (keyword, top-level key) pairs of the StatisticsData call, in order.
load_data_kwargs ==
    << <<"mean_frequency_avg", "MEAN_FREQUENCY_AVG">>,
       <<"mean_frequency_avg_rfi_excised", "MEAN_FREQUENCY_AVG_RFI_EXCISED">>,
       <<"variance_frequency_avg", "VARIANCE_FREQUENCY_AVG">>,
       <<"variance_frequency_avg_rfi_excised",
         "VARIANCE_FREQUENCY_AVG_RFI_EXCISED">>,
       <<"mean_spectrum", "MEAN_SPECTRUM">>,
       <<"variance_spectrum", "VARIANCE_SPECTRUM">>,
       <<"mean_spectral_power", "MEAN_SPECTRAL_POWER">>,
       <<"max_spectral_power", "MAX_SPECTRAL_POWER">>,
       <<"histogram_1d_freq_avg", "HISTOGRAM_1D_FREQ_AVG">>,
       <<"histogram_1d_freq_avg_rfi_excised",
         "HISTOGRAM_1D_FREQ_AVG_RFI_EXCISED">>,
       <<"rebinned_histogram_2d_freq_avg", "HISTOGRAM_REBINNED_2D_FREQ_AVG">>,
       <<"rebinned_histogram_2d_freq_avg_rfi_excised",
         "HISTOGRAM_REBINNED_2D_FREQ_AVG_RFI_EXCISED">>,
       <<"rebinned_histogram_1d_freq_avg", "HISTOGRAM_REBINNED_1D_FREQ_AVG">>,
       <<"rebinned_histogram_1d_freq_avg_rfi_excised",
         "HISTOGRAM_REBINNED_1D_FREQ_AVG_RFI_EXCISED">>,
       <<"num_clipped_samples_spectrum", "NUM_CLIPPED_SAMPLES_SPECTRUM">>,
       <<"num_clipped_samples", "NUM_CLIPPED_SAMPLES">>,
       <<"num_clipped_samples_rfi_excised",
         "NUM_CLIPPED_SAMPLES_RFI_EXCISED">>,
       <<"spectrogram", "SPECTROGRAM">>,
       <<"timeseries", "TIMESERIES">>,
       <<"timeseries_rfi_excised", "TIMESERIES_RFI_EXCISED">> >>

\* The body of the "with h5py.File(file_path, 'r') as f" block of
\* load_from_file, with the given hdf5.model: the Statistics it returns or
\* the exception it raises.  The keyword values are evaluated, in order,
\* before each dataclass is called.
load_from_file_with(model, file) ==
    IF HDF5_FILE_FORMAT_VERSION \notin DOMAIN file
            \/ HDF5_HEADER \notin DOMAIN file
    THEN [raised |-> "KeyError", stats |-> None]
    ELSE
    LET hdf5_header == file[HDF5_HEADER]
        hk == load_header_kwargs
        dk == load_data_kwargs
    IN  IF \E i \in DOMAIN hk : hk[i][2] \notin DOMAIN hdf5_header
        THEN [raised |-> "ValueError", stats |-> None]
        ELSE
        LET metadata_kwargs ==
                [kw \in {"file_format_version"} \cup {hk[i][1] : i \in DOMAIN hk}
                   |-> IF kw = "file_format_version"
                       THEN bytes_decode(file[HDF5_FILE_FORMAT_VERSION])
                       ELSE LET t == CHOOSE x \in Range(hk) : x[1] = kw
                            IN  IF t[3] THEN bytes_decode(hdf5_header[t[2]])
                                ELSE hdf5_header[t[2]]]
            metadata == dataclass_init(model.StatisticsMetadata,
                                       StatisticsMetadata_defaults,
                                       metadata_kwargs)
        IN  IF metadata.raised # OK
            THEN [raised |-> metadata.raised, stats |-> None]
            ELSE IF \E i \in DOMAIN dk : dk[i][2] \notin DOMAIN file
            THEN [raised |-> "KeyError", stats |-> None]
            ELSE
            LET data_kwargs ==
                    [kw \in {dk[i][1] : i \in DOMAIN dk} |->
                        file[(CHOOSE x \in Range(dk) : x[1] = kw)[2]]]
                data == dataclass_init(model.StatisticsData, <<>>,
                                       data_kwargs)
            IN  IF data.raised # OK
                THEN [raised |-> data.raised, stats |-> None]
                ELSE [ raised |-> OK,
                       stats |-> [ metadata |-> metadata.obj,
                                   data |-> data.obj ] ]

\* load_from_file(file_path) with the given hdf5.model: the Statistics it
\* returns or the exception it raises, the number of h5py.File calls it
\* made, and the handle f of the with block as it is left (None: never
\* opened).
load_from_file_of(model, file) ==
    IF ~path_exists(file)
    THEN [raised |-> "AssertionError", stats |-> None, opens |-> 0, f |-> None]
    ELSE
    LET opened == h5py_File(file, TRUE, "r")
    IN  IF opened.raised # OK
        THEN [ raised |-> opened.raised, stats |-> None, opens |-> 1,
               f |-> None ]
        ELSE
        LET r == load_from_file_with(model, opened.f.entries)
        IN  [ raised |-> r.raised, stats |-> r.stats, opens |-> 1,
              f |-> h5py_File__exit__(opened.f) ]

\* load_from_file(file_path) as src has it.
load_from_file(file) == load_from_file_of(hdf5_model, file)

(***************************************************************************)
(* tests/unit: the file layout test_load_hdf5_file expects, and the two    *)
(* unit tests of the key mapping.                                          *)
(***************************************************************************)
expected_keys ==
    { "FILE_FORMAT_VERSION", "HEADER", "MEAN_FREQUENCY_AVG",
      "MEAN_FREQUENCY_AVG_RFI_EXCISED", "VARIANCE_FREQUENCY_AVG",
      "VARIANCE_FREQUENCY_AVG_RFI_EXCISED", "MEAN_SPECTRUM",
      "VARIANCE_SPECTRUM", "MEAN_SPECTRAL_POWER", "MAX_SPECTRAL_POWER",
      "HISTOGRAM_1D_FREQ_AVG", "HISTOGRAM_1D_FREQ_AVG_RFI_EXCISED",
      "HISTOGRAM_REBINNED_2D_FREQ_AVG",
      "HISTOGRAM_REBINNED_2D_FREQ_AVG_RFI_EXCISED",
      "HISTOGRAM_REBINNED_1D_FREQ_AVG",
      "HISTOGRAM_REBINNED_1D_FREQ_AVG_RFI_EXCISED",
      "NUM_CLIPPED_SAMPLES_SPECTRUM", "NUM_CLIPPED_SAMPLES",
      "NUM_CLIPPED_SAMPLES_RFI_EXCISED", "SPECTROGRAM", "TIMESERIES",
      "TIMESERIES_RFI_EXCISED" }

expected_header_keys ==
    { "EB_ID", "TELESCOPE", "SCAN_ID", "BEAM_ID", "UTC_START", "T_MIN",
      "T_MAX", "FREQ", "BW", "START_CHAN", "NPOL", "NDIM", "NCHAN",
      "NCHAN_DS", "NDAT_DS", "NBIN_HIST", "NREBIN", "CHAN_FREQ",
      "FREQUENCY_BINS", "TIMESERIES_BINS", "NUM_SAMPLES",
      "NUM_SAMPLES_RFI_EXCISED", "NUM_SAMPLES_SPECTRUM",
      "NUM_INVALID_PACKETS" }

\* A STAT file found at file_path: the expected top-level keys, a header
\* row with the given field names, and the values of an earlier scan of the
\* same configuration.
existing_file(header_names, params) ==
    LET l == calc_locals(params.config,
                         simple_gaussian_generator(params.config, 0))
        m == calc_metadata_kwargs(params.config, params, l)
        hk(n) == CHOOSE x \in Range(load_header_kwargs) : x[2] = n
        d == calc_data_kwargs(l)
    IN  [k \in expected_keys |->
            IF k = "FILE_FORMAT_VERSION"
            THEN str_encode(FILE_FORMAT_VERSION_1_0_0)
            ELSE IF k = "HEADER"
            THEN [n \in header_names |->
                     IF hk(n)[3] THEN str_encode(m[hk(n)[1]])
                     ELSE m[hk(n)[1]]]
            ELSE d[(CHOOSE x \in Range(generate_data_sets) : x[1] = k)[2]]]

\* test_map_hdf5_key: the two sets the test compares.
test_map_hdf5_key ==
    LET mapped_keys == {map_hdf5_key(k) : k \in Range(HDF5_HEADER_KEYS)}
        dataclass_keys == Range(StatisticsMetadata_fields)
    IN  [ mapped_keys |-> mapped_keys,
          dataclass_keys |-> dataclass_keys,
          raised |-> IF mapped_keys = dataclass_keys THEN OK
                     ELSE "AssertionError" ]

\* dataclasses.fields(cls), by the name of the class.
fields(cls) ==
    IF cls = "StatisticsMetadata" THEN Range(StatisticsMetadata_fields)
    ELSE Range(StatisticsData_fields)

\* _assert_header_key / _assert_data_def: stat_key = map_hdf5_key(key), then
\* getattr(generated_stats.metadata, stat_key) or
\* getattr(generated_stats.data, stat_key).
getattr_mapped(cls, key) ==
    LET stat_key == map_hdf5_key(key)
    IN  [ stat_key |-> stat_key,
          raised |-> IF stat_key \in fields(cls) THEN OK
                     ELSE "AttributeError" ]

(***************************************************************************)
(* Bounds of the model.                                                    *)
(***************************************************************************)
MaxChan == 3      \* nchan of a generator's config is in 1 .. MaxChan

MaxSamp == 2      \* nsamp of a generator's config is in 1 .. MaxSamp

MaxSeed == 1      \* the random draws of a generate() call are 0 .. MaxSeed

MaxCalls == 2     \* generate() and load_from_file are called at most so often

MaxItems == 12    \* nchan of a constructed StatConfig is in 1 .. MaxItems

MaxTime == 3      \* nsamp of a constructed StatConfig is in 1 .. MaxTime

FailEdge == 2     \* the file system fails within so many statements of the
                  \* first or of the last data set of the with block

MaxDim == 3       \* npol and ndim of a constructed StatConfig are in 1 .. MaxDim

Telescopes == {"SKALow", "SKAMid"}

\* tests/conftest.py: the nbit fixture.
nbit_of(telescope) == IF telescope = "SKALow" THEN 16 ELSE 8

(***************************************************************************)
(* The state machine of a generator session: a generator constructed for   *)
(* a path, at which a file of an earlier session may already exist.        *)
(***************************************************************************)
no_call == [n |-> 0, raised |-> OK]

Init ==
    /\ \E telescope \in Telescopes, nchan \in 1 .. MaxChan,
          nsamp \in 1 .. MaxSamp, nfreq_bins \in 1 .. 2,
          ntime_bins \in 1 .. 2 :
          /\ made = StatConfig(2, 2, nchan, nsamp, 2, nbit_of(telescope),
                               nfreq_bins, ntime_bins, 4)
          /\ genr = Hdf5FileGenerator("eb-x001-20240101-00001", telescope, 42,
                                      "1", made.config, "20240101")
    /\ fs \in { None,
                existing_file(Range(dtype_names(HDF5_HEADER_TYPE)),
                              genr._params),
                existing_file(expected_header_keys, genr._params) }
    /\ calc = None
    /\ gen_call = no_call
    /\ load_call = [n |-> 0, raised |-> OK, stats |-> None, gen_n |-> 0]
    /\ test_run = None
    /\ dir = TRUE
    /\ handles = {}
    /\ stats_call = no_call

\* hdf5_file_generator.generate()
Generate(seed) ==
    /\ gen_call.n < MaxCalls
    /\ \E raw \in {simple_gaussian_generator(genr._params.config, seed)} :
       \E r \in {generate(genr, fs, raw)} :
           /\ fs' = r.file
           /\ genr' = [genr EXCEPT !._stats = r._stats]
           /\ calc' = r.calc
           /\ gen_call' = [n |-> gen_call.n + 1, raised |-> r.raised]
    /\ UNCHANGED <<made, load_call, test_run, file_vars>>

\* Statistics.load_from_file(file_path)
LoadFromFile ==
    /\ load_call.n < MaxCalls
    /\ \E r \in {load_from_file(fs)} :
           load_call' = [ n |-> load_call.n + 1, raised |-> r.raised,
                          stats |-> r.stats, gen_n |-> gen_call.n ]
    /\ UNCHANGED <<made, genr, fs, calc, gen_call, test_run, file_vars>>

Next ==
    \/ \E seed \in 0 .. MaxSeed : Generate(seed)
    \/ LoadFromFile

Spec == Init /\ [][Next]_vars

(***************************************************************************)
(* The state machine of StatConfig construction.                           *)
(***************************************************************************)
\* The arguments of a StatConfig(...) call, stored by the generated
\* __init__; __post_init__ has not run yet.
InitConfig ==
    /\ \E nchan \in 1 .. MaxItems, nsamp \in 1 .. MaxTime, nheap \in 1 .. 2,
          nbit \in {4, 8, 16, 32}, nfreq_bins \in 0 .. MaxItems + 1,
          ntime_bins \in 0 .. 2 * MaxTime + 1 :
          LET req == StatConfig_new(2, 2, nchan, nsamp, nheap, nbit,
                                    nfreq_bins, ntime_bins, 256)
          IN  made = [ done |-> FALSE, raised |-> OK, req |-> req,
                       self |-> req, config |-> None ]
    /\ genr = None
    /\ fs = None
    /\ calc = None
    /\ gen_call = no_call
    /\ load_call = no_call
    /\ test_run = None
    /\ dir = TRUE
    /\ handles = {}
    /\ stats_call = no_call

\* __post_init__ runs and StatConfig(...) returns or raises.
NewStatConfig ==
    /\ ~made.done
    /\ made' = StatConfig_call(made.req)
    /\ UNCHANGED <<genr, fs, calc, gen_call, load_call, test_run, file_vars>>

NextConfig == NewStatConfig

SpecConfig == InitConfig /\ [][NextConfig]_vars

(***************************************************************************)
(* The state machine of the key mapping: a key of the schema and the       *)
(* dataclass whose attribute is looked up under the mapped name.           *)
(***************************************************************************)
schema_keys ==
    Range(HDF5_HEADER_KEYS) \cup Range(HDF5_DATA_KEYS) \cup expected_header_keys

InitKeys ==
    /\ test_run \in [ test : {"none"}, key : schema_keys,
                      cls : {"StatisticsMetadata", "StatisticsData"} ]
    /\ made = None
    /\ genr = None
    /\ fs = None
    /\ calc = None
    /\ gen_call = no_call
    /\ load_call = no_call
    /\ dir = TRUE
    /\ handles = {}
    /\ stats_call = no_call

\* stat_key = map_hdf5_key(key); getattr(<cls instance>, stat_key)
MapHdf5Key ==
    /\ test_run.test = "none"
    /\ LET r == getattr_mapped(test_run.cls, test_run.key)
       IN  test_run' = [ test |-> "map_hdf5_key", key |-> test_run.key,
                         cls |-> test_run.cls, stat_key |-> r.stat_key,
                         raised |-> r.raised ]
    /\ UNCHANGED <<made, genr, fs, calc, gen_call, load_call, file_vars>>

\* pytest runs test_map_hdf5_key
TestMapHdf5Key ==
    /\ test_run.test = "none"
    /\ LET r == test_map_hdf5_key
       IN  test_run' = [ test |-> "test_map_hdf5_key", key |-> test_run.key,
                         cls |-> test_run.cls,
                         mapped_keys |-> r.mapped_keys,
                         dataclass_keys |-> r.dataclass_keys,
                         raised |-> r.raised ]
    /\ UNCHANGED <<made, genr, fs, calc, gen_call, load_call, file_vars>>

NextKeys == MapHdf5Key \/ TestMapHdf5Key

SpecKeys == InitKeys /\ [][NextKeys]_vars

(***************************************************************************)
(* The state machine of one _calc_stats call: a valid configuration, and   *)
(* the statistics computed from one draw of the sample generator.          *)
(***************************************************************************)
InitCalc ==
    /\ \E telescope \in Telescopes, nchan \in 1 .. MaxChan,
          nsamp \in 1 .. MaxSamp, nheap \in 1 .. 2,
          nfreq_bins \in 1 .. MaxChan, ntime_bins \in 1 .. 2 :
          /\ made = StatConfig(2, 2, nchan, nsamp, nheap, nbit_of(telescope),
                               nfreq_bins, ntime_bins, 4)
          /\ genr = Hdf5FileGenerator("eb-x001-20240101-00001", telescope, 42,
                                      "1", made.config, "20240101")
    /\ fs = None
    /\ calc = None
    /\ gen_call = no_call
    /\ load_call = no_call
    /\ test_run = None
    /\ dir = TRUE
    /\ handles = {}
    /\ stats_call = no_call

\* _calc_stats(**self._params)
CalcStats(seed) ==
    /\ calc = None
    /\ \E raw \in {simple_gaussian_generator(genr._params.config, seed)} :
       \E r \in {_calc_stats(genr._params, raw)} :
           calc' = [ raised |-> r.raised, locals |-> r.locals,
                     drawn |->
                         [ rint |-> simple_gaussian_rint(genr._params.config,
                                                         seed),
                           data |-> simple_gaussian_data(genr._params.config,
                                                         seed) ],
                     values |-> calc_values(genr._params.config, raw),
                     views |->
                         LET v == calc_values(genr._params.config, raw)
                         IN  [ timeseries |->
                                   get_timeseries_data(v.timeseries_elements),
                               timeseries_rfi_excised |->
                                   get_timeseries_data(
                                       v.timeseries_rfi_excised_elements) ],
                     data_kwargs |-> r.data_kwargs ]
    /\ UNCHANGED <<made, genr, fs, gen_call, load_call, test_run, file_vars>>

NextCalc == \E seed \in 0 .. MaxSeed : CalcStats(seed)

SpecCalc == InitCalc /\ [][NextCalc]_vars

(***************************************************************************)
(* The state machine of the file at a path, with the dataclasses of the    *)
(* extended schema: a generator is constructed for the path, generate()    *)
(* writes the file on a file system that may fail at any statement of the  *)
(* with block, the directory of the path may be removed, load_from_file    *)
(* reads the file and the stats property is read.                          *)
(***************************************************************************)
\* A STAT file whose arrays disagree with the counts of its header: the
\* spectrogram is not NCHAN_DS by NDAT_DS and CHAN_FREQ has not NCHAN
\* elements.
mismatched_file(params) ==
    LET file == existing_file(expected_header_keys, params)
        config == params.config
    IN  [file EXCEPT
            !["SPECTROGRAM"] =
                np_array(<<config.npol, config.nfreq_bins + 1,
                           config.ntime_bins + 2>>, "float32"),
            !["HEADER"]["CHAN_FREQ"] = np_linspace(config.nchan + 1)]

\* The generator of a session, for a telescope and a configuration.
session_generator(telescope, config) ==
    Hdf5FileGenerator("eb-x001-20240101-00001", telescope, 42, "1", config,
                      "20240101")

\* The states of a handle a call leaves behind: whether it opened one and
\* whether that one is closed.
handle_state(f) ==
    [opened |-> f # None, closed |-> IF f = None THEN FALSE ELSE f.closed]

\* The modes of the handles a call leaves open.
left_open(f) ==
    IF f # None /\ ~handle_state(f).closed THEN {f.mode} ELSE {}

no_load_call ==
    [ n |-> 0, raised |-> OK, stats |-> None, existed |-> FALSE, opens |-> 0,
      f |-> handle_state(None) ]

no_generate_call ==
    [ n |-> 0, raised |-> OK, stats |-> None, replaced |-> FALSE,
      existed |-> FALSE, parent |-> FALSE, fail_at |-> 0,
      f |-> handle_state(None) ]

no_stats_call == [n |-> 0, raised |-> OK, value |-> None]

InitFile ==
    /\ \E telescope \in Telescopes :
          /\ made = StatConfig(2, 2, 2, 1, 2, nbit_of(telescope), 1, 1, 4)
          /\ dir \in BOOLEAN
          /\ fs \in IF dir
                    THEN LET old == session_generator(telescope, made.config)
                         IN  { None,
                               existing_file(expected_header_keys, old._params),
                               mismatched_file(old._params) }
                    ELSE {None}
    /\ genr = None
    /\ calc = None
    /\ gen_call = no_generate_call
    /\ load_call = no_load_call
    /\ test_run = None
    /\ handles = {}
    /\ stats_call = no_stats_call

\* Hdf5FileGenerator(file_path, ...): __init__ makes the parent directory
\* of file_path if it does not exist.
NewHdf5FileGenerator ==
    /\ genr = None
    /\ \E telescope \in Telescopes :
          /\ nbit_of(telescope) = made.config.nbit
          /\ genr' = session_generator(telescope, made.config)
    /\ dir' = (IF ~dir THEN TRUE ELSE dir)
    /\ UNCHANGED <<made, fs, calc, gen_call, load_call, test_run, handles,
                   stats_call>>

\* The directory of the file path is removed, with the file in it.
RemoveParent ==
    /\ dir
    /\ dir' = FALSE
    /\ fs' = None
    /\ UNCHANGED <<made, genr, calc, gen_call, load_call, test_run, handles,
                   stats_call>>

\* Where the file system fails in the with block of a generate() call:
\* at a statement up to the first data set, at one of the last data set, or
\* never (generate_write_len).
FailPoints ==
    (0 .. 4 + FailEdge)
        \cup (generate_write_len - FailEdge .. generate_write_len)

\* hdf5_file_generator.generate(), the file system failing at fail_at.  The
\* record of the call keeps the Statistics it computed, whether that
\* replaced another one, whether a file and the directory were there when
\* it began, and the handle it leaves.
GenerateFile(seed, fail_at) ==
    /\ genr # None
    /\ gen_call.n < MaxCalls
    /\ \E raw \in {simple_gaussian_generator(genr._params.config, seed)} :
       \E r \in {generate_of(hdf5_model_extended, genr, fs, dir, raw,
                             fail_at)} :
           /\ fs' = r.file
           /\ genr' = [genr EXCEPT !._stats = r._stats]
           /\ gen_call' = [ n |-> gen_call.n + 1, raised |-> r.raised,
                            stats |-> r._stats,
                            replaced |-> /\ genr._stats # None
                                         /\ genr._stats # r._stats,
                            existed |-> fs # None,
                            parent |-> dir, fail_at |-> fail_at,
                            f |-> handle_state(r.f) ]
           /\ handles' = handles \cup left_open(r.f)
    /\ load_call' = no_load_call
    /\ stats_call' = no_stats_call
    /\ UNCHANGED <<made, calc, test_run, dir>>

\* Statistics.load_from_file(file_path); n counts the calls since the file
\* was last written, up to the first.
LoadFile ==
    /\ \E r \in {load_from_file_of(hdf5_model_extended, fs)} :
           /\ load_call' = [ n |-> 1, raised |-> r.raised,
                             stats |-> r.stats, existed |-> fs # None,
                             opens |-> r.opens, f |-> handle_state(r.f) ]
           /\ handles' = handles \cup left_open(r.f)
    /\ UNCHANGED <<made, genr, fs, calc, gen_call, test_run, dir, stats_call>>

\* hdf5_file_generator.stats; n counts the reads since the last generate()
\* call, up to the first.
GetStats ==
    /\ genr # None
    /\ \E r \in {Hdf5FileGenerator_stats(genr)} :
           stats_call' = [ n |-> 1, raised |-> r.raised, value |-> r.value ]
    /\ UNCHANGED <<made, genr, fs, calc, gen_call, load_call, test_run, dir,
                   handles>>

NextFile ==
    \/ NewHdf5FileGenerator
    \/ RemoveParent
    \/ \E seed \in 0 .. MaxSeed, fail_at \in FailPoints :
          GenerateFile(seed, fail_at)
    \/ LoadFile
    \/ GetStats

SpecFile == InitFile /\ [][NextFile]_vars

(***************************************************************************)
(* The state machine of the counts npol and ndim: a StatConfig is built    *)
(* with any npol and ndim (its fields are not validated), a generator for  *)
(* it writes the file, and load_from_file reads the file at the path,      *)
(* which may be one of an earlier scan with those counts.                  *)
(***************************************************************************)
InitDims ==
    /\ \E telescope \in Telescopes, npol \in 1 .. MaxDim, ndim \in 1 .. MaxDim :
          /\ made = StatConfig(npol, ndim, 2, 1, 2, nbit_of(telescope), 1, 1, 4)
          /\ genr = session_generator(telescope, made.config)
          /\ fs \in {None, existing_file(expected_header_keys, genr._params)}
    /\ dir = TRUE
    /\ calc = None
    /\ gen_call = no_generate_call
    /\ load_call = no_load_call
    /\ test_run = None
    /\ handles = {}
    /\ stats_call = no_stats_call

NextDims ==
    \/ \E seed \in 0 .. MaxSeed, fail_at \in FailPoints :
          GenerateFile(seed, fail_at)
    \/ LoadFile

SpecDims == InitDims /\ [][NextDims]_vars

(***************************************************************************)
(* Properties of StatConfig construction (checked under SpecConfig).       *)
(***************************************************************************)
\* The divisors of n among the candidates.
divisors_in(n, candidates) == {d \in candidates : d >= 1 /\ n % d = 0}

\* Greatest and least member of a non-empty set of integers.
max_of(S) == CHOOSE x \in S : \A y \in S : y <= x

min_of(S) == CHOOSE x \in S : \A y \in S : x <= y

\* A construction that has run to its end without raising.
constructed == made.done /\ made.raised = OK

\* C8: after StatConfig construction nchan % nfreq_bins = 0 and
\* (nheap * nsamp) % ntime_bins = 0; and for nbit 8 or 16 every request
\* from 1 up to the respective total (nchan, nheap * nsamp) is constructed.
C8_BinningFactorValidity ==
    /\ constructed =>
          /\ made.config.nfreq_bins >= 1
          /\ made.config.ntime_bins >= 1
          /\ made.config.nchan % made.config.nfreq_bins = 0
          /\ (made.config.nheap * made.config.nsamp)
                 % made.config.ntime_bins = 0
    /\ ( /\ made.done
         /\ made.req.nbit \in {8, 16}
         /\ made.req.nfreq_bins \in 1 .. made.req.nchan
         /\ made.req.ntime_bins \in 1 .. made.req.nheap * made.req.nsamp )
       => made.raised = OK

\* A construction in which neither request divided its total and both bin
\* counts were adjusted.
C8_Witness ==
    /\ constructed
    /\ made.req.nfreq_bins \in 2 .. made.req.nchan - 1
    /\ made.req.nchan % made.req.nfreq_bins # 0
    /\ made.config.nfreq_bins # made.req.nfreq_bins
    /\ made.req.ntime_bins \in 2 .. made.req.nheap * made.req.nsamp - 1
    /\ (made.req.nheap * made.req.nsamp) % made.req.ntime_bins # 0
    /\ made.config.ntime_bins # made.req.ntime_bins

\* The bin count "the largest exact divisor of n that is <= r, and n when n
\* has no divisor in 2 .. r".
largest_divisor_at_most(n, r) ==
    IF divisors_in(n, 2 .. r) = {} THEN n ELSE max_of(divisors_in(n, 2 .. r))

\* The bin count "the smallest exact divisor of n that is >= r".
smallest_divisor_at_least(n, r) == min_of(divisors_in(n, r .. n))

\* C9 as stated: for 1 <= r <= n the adjusted bin count is the largest exact
\* divisor of n that is <= r, and n when n has no divisor in 2 .. r.
C9_LargestDivisorAtMostRequest ==
    constructed =>
        /\ made.req.nfreq_bins \in 1 .. made.req.nchan
              => made.config.nfreq_bins =
                     largest_divisor_at_most(made.req.nchan,
                                             made.req.nfreq_bins)
        /\ made.req.ntime_bins \in 1 .. made.req.nheap * made.req.nsamp
              => made.config.ntime_bins =
                     largest_divisor_at_most(made.req.nheap * made.req.nsamp,
                                             made.req.ntime_bins)

\* C9 amended: for 1 <= r <= n the adjusted bin count is the smallest exact
\* divisor of n that is >= r (r itself when r divides n, n when no smaller
\* divisor reaches r); a request is never lowered.
C9_SmallestDivisorAtLeastRequest ==
    constructed =>
        /\ made.req.nfreq_bins \in 1 .. made.req.nchan
              => made.config.nfreq_bins =
                     smallest_divisor_at_least(made.req.nchan,
                                               made.req.nfreq_bins)
        /\ made.req.ntime_bins \in 1 .. made.req.nheap * made.req.nsamp
              => made.config.ntime_bins =
                     smallest_divisor_at_least(
                         made.req.nheap * made.req.nsamp, made.req.ntime_bins)

\* 4 bins asked for 10 channels: 2 and 5 divide 10, the result is 5.
C9_Witness ==
    /\ constructed
    /\ made.req.nchan = 10
    /\ made.req.nfreq_bins = 4
    /\ made.config.nfreq_bins = 5
    /\ made.req.nheap * made.req.nsamp = 6
    /\ made.req.ntime_bins = 4
    /\ made.config.ntime_bins = 6

\* C10: constructing a StatConfig with nbit outside {8, 16} raises, no config
\* is returned, and the object is as the arguments left it (no dtype chosen,
\* no bin count recalculated); with nbit 8 or 16 the nbit check never raises.
C10_NbitChecked ==
    made.done =>
        /\ made.req.nbit \notin {8, 16} =>
              /\ made.raised = "AssertionError"
              /\ made.config = None
              /\ made.self = made.req
              /\ made.self.dtype = "unset"
        /\ made.req.nbit \in {8, 16} =>
              /\ made.raised # "AssertionError"
              /\ made.self.dtype \in {"int8", "int16"}

\* A 32-bit request whose bin counts a recalculation would have changed.
C10_Witness ==
    /\ made.done
    /\ made.req.nbit = 32
    /\ made.raised = "AssertionError"
    /\ made.req.nfreq_bins >= 1
    /\ made.req.nchan % made.req.nfreq_bins # 0
    /\ made.self.nfreq_bins = made.req.nfreq_bins

(***************************************************************************)
(* Properties of a generator session (checked under Spec).                 *)
(***************************************************************************)
\* The last generate() call has ended and nothing was generated after the
\* last load_from_file call, which came after it.
loaded_after_generate ==
    /\ gen_call.n > 0
    /\ load_call.n > 0
    /\ load_call.gen_n = gen_call.n

\* The 20 array fields of the Data the generator builds.
data_fields == {generate_data_sets[i][2] : i \in DOMAIN generate_data_sets}

header_pack_matches_type ==
    /\ Len(generate_header_attrs) = Len(HDF5_HEADER_TYPE)
    /\ \A i \in DOMAIN generate_header_attrs :
          /\ i \in DOMAIN HDF5_HEADER_TYPE
          /\ \E x \in Range(load_header_kwargs) :
                /\ x[2] = HDF5_HEADER_TYPE[i][1]
                /\ x[1] = generate_header_attrs[i]

\* C2: header round-trip: load_from_file returns a StatisticsMetadata whose
\* every field equals the generated value, and the number and order of the
\* values the writer packs match the fields of the header record type.
C2_HeaderRoundTrip ==
    /\ header_pack_matches_type
    /\ loaded_after_generate =>
          /\ gen_call.raised = OK
          /\ load_call.raised = OK
          /\ load_call.stats.metadata = genr._stats.metadata

header_fields_24 ==
    { "EB_ID", "TELESCOPE", "SCAN_ID", "BEAM_ID", "UTC_START", "T_MIN",
      "T_MAX", "FREQ", "BW", "START_CHAN", "NPOL", "NDIM", "NCHAN",
      "NCHAN_DS", "NDAT_DS", "NBIN_HIST", "NREBIN", "CHAN_FREQ",
      "FREQUENCY_BINS", "TIMESERIES_BINS", "NUM_SAMPLES",
      "NUM_SAMPLES_RFI_EXCISED", "NUM_SAMPLES_SPECTRUM",
      "NUM_INVALID_PACKETS" }

\* C6: the HEADER record generate() writes has exactly the 24 listed fields,
\* and the header record type, the header-key list, the fields the loader
\* reads and the values the writer packs all name this same set.
C6_HeaderFields ==
    /\ Range(dtype_names(HDF5_HEADER_TYPE)) = header_fields_24
    /\ Range(HDF5_HEADER_KEYS) \ {HDF5_FILE_FORMAT_VERSION} = header_fields_24
    /\ {x[2] : x \in Range(load_header_kwargs)} = header_fields_24
    /\ Range(generate_header_attrs)
           = {x[1] : x \in Range(load_header_kwargs)}
    /\ Len(generate_header_attrs) = Cardinality(header_fields_24)
    /\ gen_call.n > 0 =>
          /\ fs # None
          /\ DOMAIN fs[HDF5_HEADER] = header_fields_24

\* C7: every array the generator computes for the Data has the shape the
\* format table gives from the Metadata counts, and the three vectors of
\* the Metadata have lengths nchan, nchan_ds and ndat_ds.
C7_ShapeInvariants ==
    gen_call.n > 0 =>
        LET m == calc.metadata_kwargs
            d == calc.data_kwargs
            pd == <<m.npol, m.ndim>>
            pdc == <<m.npol, m.ndim, m.nchan>>
            pc == <<m.npol, m.nchan>>
        IN  /\ d.mean_frequency_avg.shape = pd
            /\ d.mean_frequency_avg_rfi_excised.shape = pd
            /\ d.variance_frequency_avg.shape = pd
            /\ d.variance_frequency_avg_rfi_excised.shape = pd
            /\ d.num_clipped_samples.shape = pd
            /\ d.num_clipped_samples_rfi_excised.shape = pd
            /\ d.mean_spectrum.shape = pdc
            /\ d.variance_spectrum.shape = pdc
            /\ d.num_clipped_samples_spectrum.shape = pdc
            /\ d.mean_spectral_power.shape = pc
            /\ d.max_spectral_power.shape = pc
            /\ d.histogram_1d_freq_avg.shape
                   = <<m.npol, m.ndim, m.histogram_nbin>>
            /\ d.histogram_1d_freq_avg_rfi_excised.shape
                   = <<m.npol, m.ndim, m.histogram_nbin>>
            /\ d.rebinned_histogram_1d_freq_avg.shape
                   = <<m.npol, m.ndim, m.nrebin>>
            /\ d.rebinned_histogram_1d_freq_avg_rfi_excised.shape
                   = <<m.npol, m.ndim, m.nrebin>>
            /\ d.rebinned_histogram_2d_freq_avg.shape
                   = <<m.npol, m.nrebin, m.nrebin>>
            /\ d.rebinned_histogram_2d_freq_avg_rfi_excised.shape
                   = <<m.npol, m.nrebin, m.nrebin>>
            /\ d.spectrogram.shape = <<m.npol, m.nchan_ds, m.ndat_ds>>
            /\ d.timeseries.shape = <<m.npol, m.ndat_ds, 3>>
            /\ d.timeseries_rfi_excised.shape = <<m.npol, m.ndat_ds, 3>>
            /\ m.channel_freq_mhz.shape = <<m.nchan>>
            /\ m.frequency_bins.shape = <<m.nchan_ds>>
            /\ m.timeseries_bins.shape = <<m.ndat_ds>>
            /\ DOMAIN d = data_fields

\* A generate() call for 3 channels in 1 frequency bin and 4 samples in 2
\* time bins: the counts nchan, nchan_ds and ndat_ds all differ.
C7_Witness ==
    /\ gen_call.n > 0
    /\ calc.metadata_kwargs.nchan = 3
    /\ calc.metadata_kwargs.nchan_ds = 1
    /\ calc.metadata_kwargs.ndat_ds = 2
    /\ calc.locals.raw.shape = <<2, 2, 3, 4>>
    /\ calc.data_kwargs.spectrogram.shape = <<2, 1, 2>>

(***************************************************************************)
(* Properties of a _calc_stats call (checked under SpecCalc).              *)
(***************************************************************************)
\* _calc_stats has run for a config whose set of RFI-excised channels is
\* empty.
calculated_without_rfi ==
    /\ calc # None
    /\ rfi_excised_channel_indexes(genr._params.config) = {}

\* C11: RFI-exclusion identity for histograms: with an empty RFI-excised
\* channel set, the three histograms computed over the non-excised channels
\* (1-D, rebinned 1-D, rebinned 2-D) equal the histograms computed over all
\* of the data, bin for bin.
C11_HistogramRfiIdentity ==
    calculated_without_rfi =>
        LET v == calc.values
        IN  /\ v.histogram_1d_freq_avg_rfi_excised = v.histogram_1d_freq_avg
            /\ v.rebinned_histogram_1d_freq_avg_rfi_excised
                   = v.rebinned_histogram_1d_freq_avg
            /\ v.rebinned_histogram_2d_freq_avg_rfi_excised
                   = v.rebinned_histogram_2d_freq_avg

C13_HistogramTotal ==
    calc # None =>
        LET config == genr._params.config
        IN  \A pd \in pol_dim(config) :
                /\ np_sum(calc.values.histogram_1d_freq_avg[pd])
                       = config.nchan * total_samples_per_channel(config)
                /\ DOMAIN calc.values.histogram_1d_freq_avg[pd]
                       \subseteq 0 .. nbin(config) - 1

\* A _calc_stats call in which one component has samples at both clip bounds:
\* the first and the last bin of its histogram are occupied.
C13_Witness ==
    /\ calc # None
    /\ genr._params.config.nchan * total_samples_per_channel(genr._params.config)
           >= 6
    /\ \E pd \in pol_dim(genr._params.config) :
          /\ 0 \in DOMAIN calc.values.histogram_1d_freq_avg[pd]
          /\ nbin(genr._params.config) - 1
                 \in DOMAIN calc.values.histogram_1d_freq_avg[pd]

\* C14: conservation of power under spectrogram binning: every (channel,
\* sample) cell of power is summed into exactly one spectrogram cell, the
\* cells the loops assign are exactly the nfreq_bins x ntime_bins cells of
\* the spectrogram's shape, and no assignment indexes past that shape; the
\* sums over spectrogram[p] and over power[p] then have the same addends.
C14_SpectrogramConservation ==
    calc # None =>
        LET config == genr._params.config
            sp == calc.values.spectrogram
            shape == calc.locals.spectrogram.shape
        IN  /\ \A cell \in calc.values.power :
                  Cardinality({ft \in DOMAIN sp : cell \in sp[ft].sum}) = 1
            /\ \A ft \in DOMAIN sp : sp[ft].sum \subseteq calc.values.power
            /\ DOMAIN sp = (0 .. config.nfreq_bins - 1)
                               \X (0 .. config.ntime_bins - 1)
            /\ \A ft \in DOMAIN sp : ft[1] < shape[2] /\ ft[2] < shape[3]
            /\ calc.raised # "IndexError"

\* A _calc_stats call for 2 channels in 1 frequency bin and 4 samples in 2
\* time bins: each of the 2 spectrogram cells sums 4 cells of power.
C14_Witness ==
    /\ calc # None
    /\ genr._params.config.nchan = 2
    /\ DOMAIN calc.values.spectrogram = {<<0, 0>>, <<0, 1>>}
    /\ \A ft \in DOMAIN calc.values.spectrogram :
          Cardinality(calc.values.spectrogram[ft].sum) = 4
    /\ Cardinality(calc.values.power) = 8

(***************************************************************************)
(* Properties of the key mapping (checked under SpecKeys).                 *)
(***************************************************************************)
\* C3: key-mapping bijection: the set of map_hdf5_key(k) for k in
\* HDF5_HEADER_KEYS equals the set of StatisticsMetadata field names.
C3_KeyMappingBijection ==
    test_run.test = "test_map_hdf5_key" =>
        /\ test_run.mapped_keys = test_run.dataclass_keys
        /\ test_run.raised = OK

\* C4: for each of the 20 data keys K, map_hdf5_key(K) names an existing
\* StatisticsData field, the one that holds the array stored under K (the
\* field the writer stores under K and the loader reads K into).
C4_DataKeyMapping ==
    ( /\ test_run.test = "map_hdf5_key"
      /\ test_run.cls = "StatisticsData"
      /\ test_run.key \in Range(HDF5_DATA_KEYS) ) =>
        /\ test_run.raised = OK
        /\ test_run.stat_key \in Range(StatisticsData_fields)
        /\ <<test_run.key, test_run.stat_key>> \in Range(generate_data_sets)
        /\ <<test_run.stat_key, test_run.key>> \in Range(load_data_kwargs)

(***************************************************************************)
(* Properties of the file at a path (checked under SpecFile).              *)
(***************************************************************************)
\* C15: load_from_file on a path that does not exist fails with an error
\* that tells the caller the file is not there (the failed assertion
\* "Expected <path> to exist"): it returns no Statistics, makes no
\* h5py.File call, opens no handle, and tries only once.
C15_MissingFileNotFound ==
    (load_call.n > 0 /\ ~load_call.existed) =>
        /\ load_call.raised = "AssertionError"
        /\ load_call.stats = None
        /\ load_call.opens = 0
        /\ ~load_call.f.opened

\* A load_from_file call on a path with no file, after the directory of
\* the path was removed.
C15_Witness ==
    /\ load_call.n > 0
    /\ ~load_call.existed
    /\ load_call.raised = "AssertionError"
    /\ ~dir

\* The shape table, for a Statistics object: the arrays the header counts
\* give a length or shape.
shape_table(stats) ==
    LET m == stats.metadata
        d == stats.data
    IN  /\ m.channel_freq_mhz.shape = <<m.nchan>>
        /\ m.frequency_bins.shape = <<m.nchan_ds>>
        /\ m.timeseries_bins.shape = <<m.ndat_ds>>
        /\ d.mean_spectrum.shape = <<m.npol, m.ndim, m.nchan>>
        /\ d.spectrogram.shape = <<m.npol, m.nchan_ds, m.ndat_ds>>
        /\ d.timeseries.shape = <<m.npol, m.ndat_ds, 3>>
        /\ d.timeseries_rfi_excised.shape = <<m.npol, m.ndat_ds, 3>>

written_by(stats) ==
    LET header_data ==
            np_array_struct(
                [i \in DOMAIN generate_header_attrs |->
                    stats.metadata[generate_header_attrs[i]]],
                HDF5_HEADER_TYPE_extended)
    IN  generate_write(HDF5_HEADER_TYPE_extended, header_data.row,
                       stats.data, generate_write_len).entries

C22_RawInClipRange ==
    calc # None =>
        LET config == genr._params.config
            raw == calc.locals.raw
        IN  \A idx \in DOMAIN raw.v :
                /\ raw.v[idx] >= 0 - 2 ^ (config.nbit - 1)
                /\ raw.v[idx] <= 2 ^ (config.nbit - 1) - 1
                /\ raw.v[idx] = calc.drawn.data[idx]

\* An 8-bit draw with a value above 127 and one below -128: the raw samples
\* there are 127 and -128.
C22_Witness ==
    /\ calc # None
    /\ genr._params.config.nbit = 8
    /\ \E idx \in DOMAIN calc.locals.raw.v :
          calc.drawn.rint[idx] > 127 /\ calc.locals.raw.v[idx] = 127
    /\ \E idx \in DOMAIN calc.locals.raw.v :
          calc.drawn.rint[idx] < 0 - 128 /\ calc.locals.raw.v[idx] = 0 - 128

\* C23: rebinning shift: for every raw sample v, the rebinned value is
\* min(max(v + nrebin // 2, 0), nrebin - 1), the sum taken without
\* wrap-around in the nbit-wide sample type; a sample whose shifted value
\* exceeds nrebin - 1 is then in the top rebinned bin and never in bin 0.
C23_RebinWithoutWrap ==
    calc # None =>
        LET config == genr._params.config
            v == calc.values
        IN  \A pd \in pol_dim(config) :
            \A j \in DOMAIN v.raw_flattened[pd] :
                LET shifted == v.raw_flattened[pd][j] + config.nrebin \div 2
                IN  /\ v.raw_rebinned[pd][j]
                          = IF shifted < 0 THEN 0
                            ELSE IF shifted > config.nrebin - 1
                            THEN config.nrebin - 1 ELSE shifted
                    /\ shifted > config.nrebin - 1
                          => v.raw_rebinned[pd][j] # 0

\* The sample variance (ddof=1) of the integers f holds, as the numerator
\* and the denominator of a fraction; the denominator is 0 (the variance is
\* not a number) for a single sample.
var_exact(f) ==
    LET n == Cardinality(DOMAIN f)
        total == sum_over(f, DOMAIN f)
    IN  [ num |-> n * sum_over([k \in DOMAIN f |-> f[k] * f[k]], DOMAIN f)
                      - total * total,
          den |-> n * (n - 1) ]

\* Two fractions are the same number, or both are not a number.
same_fraction(a, b) ==
    IF a.den = 0 \/ b.den = 0 THEN a.den = b.den
    ELSE a.num * b.den = b.num * a.den

\* The average over the channels idx of the per-channel variances of
\* component pd, as a fraction: every channel has the same sample count.
mean_of_variance_spectrum(variance_spectrum, pd, idx) ==
    LET per_channel == [c \in idx |->
                           var_exact(variance_spectrum[<<pd, c>>].var)]
        c0 == CHOOSE c \in idx : TRUE
    IN  [ num |-> sum_over([c \in idx |-> per_channel[c].num], idx),
          den |-> Cardinality(idx) * per_channel[c0].den ]

C25_ClippedSampleCounts ==
    calc # None =>
        LET config == genr._params.config
            v == calc.values
            raw == calc.locals.raw
            channels == 0 .. config.nchan - 1
            samples == 0 .. total_samples_per_channel(config) - 1
            at_bound(pd, c) ==
                {s \in samples :
                    raw.v[<<pd[1], pd[2], c, s>>]
                        \in {0 - 2 ^ (config.nbit - 1),
                             2 ^ (config.nbit - 1) - 1}}
        IN  \A pd \in pol_dim(config) :
                /\ \A c \in channels :
                      v.num_clipped_samples_spectrum[<<pd, c>>]
                          = Cardinality(at_bound(pd, c))
                /\ v.num_clipped_samples[pd]
                      = Cardinality({cs \in channels \X samples :
                                        cs[2] \in at_bound(pd, cs[1])})
                /\ v.num_clipped_samples_rfi_excised[pd]
                      = Cardinality({cs \in non_rfi_channel_indexes(config)
                                               \X samples :
                                        cs[2] \in at_bound(pd, cs[1])})
                /\ v.num_clipped_samples_rfi_excised[pd]
                      <= v.num_clipped_samples[pd]
                /\ v.num_clipped_samples[pd]
                      <= config.nchan * total_samples_per_channel(config)

\* A _calc_stats call for 3 channels in which a component has a channel
\* with a sample at the lower clip bound and none at the upper one, and
\* some but not all of its samples are clipped.
C25_Witness ==
    /\ calc # None
    /\ genr._params.config.nchan = 3
    /\ \E pd \in pol_dim(genr._params.config) :
          /\ \E c \in 0 .. 2 :
                /\ calc.values.num_clipped_samples_spectrum[<<pd, c>>] = 1
                /\ \E s \in 0 .. total_samples_per_channel(genr._params.config)
                                  - 1 :
                      calc.locals.raw.v[<<pd[1], pd[2], c, s>>]
                          = clipped_low(genr._params.config)
                /\ \A s \in 0 .. total_samples_per_channel(genr._params.config)
                                  - 1 :
                      calc.locals.raw.v[<<pd[1], pd[2], c, s>>]
                          # clipped_high(genr._params.config)
          /\ calc.values.num_clipped_samples[pd] >= 2
          /\ calc.values.num_clipped_samples[pd]
                 < 3 * total_samples_per_channel(genr._params.config)

\* C26: timeseries axis order: in both timeseries arrays the last axis
\* holds [max, min, mean] at the indexes 0, 1, 2: the generator writes the
\* max, min and mean of power over each time block at those indexes, and
\* the timeseries view reads its Max, Min and Mean columns from the same
\* indexes.
C26_TimeseriesAxisOrder ==
    calc # None =>
        LET v == calc.values
            ordered(elements, blocks, view) ==
                /\ DOMAIN elements = (DOMAIN blocks) \X {0, 1, 2}
                /\ \A tb \in DOMAIN blocks :
                      /\ elements[<<tb, 0>>] = [max |-> blocks[tb].max]
                      /\ elements[<<tb, 1>>] = [min |-> blocks[tb].min]
                      /\ elements[<<tb, 2>>] = [mean |-> blocks[tb].mean]
                      /\ view[tb].Max = elements[<<tb, 0>>]
                      /\ view[tb].Min = elements[<<tb, 1>>]
                      /\ view[tb].Mean = elements[<<tb, 2>>]
        IN  /\ ordered(v.timeseries_elements, v.timeseries,
                       calc.views.timeseries)
            /\ ordered(v.timeseries_rfi_excised_elements,
                       v.timeseries_rfi_excised,
                       calc.views.timeseries_rfi_excised)

\* A _calc_stats call for 4 samples in 2 time blocks: the view has two rows
\* and the Mean of the second one is the mean over the block of samples 2
\* and 3 of every channel.
C26_Witness ==
    /\ calc # None
    /\ total_samples_per_channel(genr._params.config) = 4
    /\ genr._params.config.nchan = 2
    /\ DOMAIN calc.views.timeseries = {0, 1}
    /\ calc.views.timeseries[1].Mean = [mean |-> {0, 1} \X {2, 3}]
    /\ calc.views.timeseries[1].Max = [max |-> {0, 1} \X {2, 3}]

(***************************************************************************)
(* Properties of the bin-count adjustment (checked under SpecConfig).      *)
(***************************************************************************)
\* The adjusted count of n items for a request r, as the claim gives it.
adjusted_as_claimed(n, r, adjusted) ==
    /\ r \in 1 .. n =>
          /\ adjusted \in divisors_in(n, r .. n)
          /\ \A d \in divisors_in(n, r .. n) : adjusted <= d
          /\ adjusted >= r
          /\ (adjusted = r) <=> (n % r = 0)
    /\ r > n => adjusted = n

\* C27: the bin-count adjustment never lowers a request within the item
\* count: for n >= 1 items and a request r with 1 <= r <= n the adjusted
\* count is the smallest divisor of n that is >= r (so it equals r exactly
\* when r divides n), and for r > n the adjusted count is n.
C27_AdjustmentNeverLowers ==
    constructed =>
        /\ adjusted_as_claimed(made.req.nchan, made.req.nfreq_bins,
                               made.config.nfreq_bins)
        /\ adjusted_as_claimed(made.req.nheap * made.req.nsamp,
                               made.req.ntime_bins, made.config.ntime_bins)

\* 13 bins asked for 12 channels give 12; 4 bins asked for 6 samples give 6.
C27_Witness ==
    /\ constructed
    /\ made.req.nchan = 12
    /\ made.req.nfreq_bins = 13
    /\ made.config.nfreq_bins = 12
    /\ made.req.nheap * made.req.nsamp = 6
    /\ made.req.ntime_bins = 4
    /\ made.config.ntime_bins = 6

(***************************************************************************)
(* Properties relating the histograms of a _calc_stats call (checked under *)
(* SpecCalc).                                                              *)
(***************************************************************************)
\* The count a histogram holds in a bin; a bin that is not occupied holds 0.
count_in(hist, b) == IF b \in DOMAIN hist THEN hist[b] ELSE 0

\* C28: clip counters agree with the histogram ends: for every (pol, dim),
\* num_clipped_samples[pol, dim] equals histogram_1d_freq_avg[pol, dim, 0]
\* + histogram_1d_freq_avg[pol, dim, nbin - 1]; the first and the last bin
\* hold exactly the samples equal to the lower and the upper clip bound.
C28_ClipCountersAtHistogramEnds ==
    calc # None =>
        LET config == genr._params.config
            v == calc.values
            last == 2 ^ config.nbit - 1
        IN  \A pd \in pol_dim(config) :
                LET hist == v.histogram_1d_freq_avg[pd]
                    flat == v.raw_flattened[pd]
                IN  /\ v.num_clipped_samples[pd]
                          = count_in(hist, 0) + count_in(hist, last)
                    /\ count_in(hist, 0)
                          = Cardinality({j \in DOMAIN flat :
                                flat[j] = 0 - 2 ^ (config.nbit - 1)})
                    /\ count_in(hist, last)
                          = Cardinality({j \in DOMAIN flat :
                                flat[j] = 2 ^ (config.nbit - 1) - 1})

\* An 8-bit _calc_stats call in which a component has samples in bin 0, in
\* bin 255 and, next to a clip bound, in bin 1 or bin 254.
C28_Witness ==
    /\ calc # None
    /\ genr._params.config.nbit = 8
    /\ \E pd \in pol_dim(genr._params.config) :
          /\ count_in(calc.values.histogram_1d_freq_avg[pd], 0) >= 1
          /\ count_in(calc.values.histogram_1d_freq_avg[pd], 255) >= 1
          /\ count_in(calc.values.histogram_1d_freq_avg[pd], 1)
                 + count_in(calc.values.histogram_1d_freq_avg[pd], 254) >= 1
          /\ calc.values.num_clipped_samples[pd] >= 2

\* The sums of a 2-D histogram over its second and over its first axis
\* agree, bin by bin, with the 1-D histograms of the real and of the
\* imaginary component.
marginals_agree(config, hist_2d, hist_real, hist_imag) ==
    \A b \in 0 .. config.nrebin - 1 :
        /\ sum_over(hist_2d, {c \in DOMAIN hist_2d : c[1] = b})
               = count_in(hist_real, b)
        /\ sum_over(hist_2d, {c \in DOMAIN hist_2d : c[2] = b})
               = count_in(hist_imag, b)

\* C29: the 2-D rebinned histogram is consistent with the 1-D rebinned
\* histograms: for every polarisation p, summing
\* rebinned_histogram_2d_freq_avg[p] over its second (imaginary) axis gives
\* rebinned_histogram_1d_freq_avg[p, real], summing it over its first (real)
\* axis gives rebinned_histogram_1d_freq_avg[p, imag], and its total is
\* nchan * total_samples_per_channel; the same marginal relation holds
\* between the RFI-excised 2-D and 1-D arrays.
C29_RebinnedHistogramMarginals ==
    calc # None =>
        LET config == genr._params.config
            v == calc.values
        IN  \A p \in 0 .. config.npol - 1 :
                /\ p \in DOMAIN v.rebinned_histogram_2d_freq_avg
                /\ DOMAIN v.rebinned_histogram_2d_freq_avg[p]
                       \subseteq (0 .. config.nrebin - 1)
                                     \X (0 .. config.nrebin - 1)
                /\ marginals_agree(
                       config, v.rebinned_histogram_2d_freq_avg[p],
                       v.rebinned_histogram_1d_freq_avg[<<p, 0>>],
                       v.rebinned_histogram_1d_freq_avg[<<p, 1>>])
                /\ np_sum(v.rebinned_histogram_2d_freq_avg[p])
                       = config.nchan * total_samples_per_channel(config)
                /\ marginals_agree(
                       config, v.rebinned_histogram_2d_freq_avg_rfi_excised[p],
                       v.rebinned_histogram_1d_freq_avg_rfi_excised[<<p, 0>>],
                       v.rebinned_histogram_1d_freq_avg_rfi_excised[<<p, 1>>])

\* A _calc_stats call for 3 channels of 4 samples in which the real and the
\* imaginary component of a polarisation have different rebinned
\* histograms and the 2-D histogram has a cell off its diagonal.
C29_Witness ==
    /\ calc # None
    /\ genr._params.config.nchan = 3
    /\ total_samples_per_channel(genr._params.config) = 4
    /\ \E p \in {0, 1} :
          /\ np_sum(calc.values.rebinned_histogram_2d_freq_avg[p]) = 12
          /\ calc.values.rebinned_histogram_1d_freq_avg[<<p, 0>>]
                 # calc.values.rebinned_histogram_1d_freq_avg[<<p, 1>>]
          /\ \E c \in DOMAIN calc.values.rebinned_histogram_2d_freq_avg[p] :
                c[1] # c[2]

====
